---- MODULE Spec2Model ----
(***************************************************************************)
(* State-machine model of the SynthGraphix server: the daily task          *)
(* allocation, task completion, bonus redemption and withdrawal handlers,  *)
(* all running as async request handlers over ONE shared SQLite            *)
(* connection (server/src/db.js).  Every `await run/get/all` of a handler  *)
(* is one atomic step; handlers of different requests interleave between   *)
(* steps.                                                                  *)
(***************************************************************************)
EXTENDS Integers, Sequences, FiniteSets, TLC

\* ------------------------------------------------------------------------
\* Universe of the model
\* ------------------------------------------------------------------------
Users == {"u1", "u2"}
Procs == {"p1", "p2"}
Tasks == {1, 2, 3}
\* Identities (email and username) of people who register, and the referral
\* codes they submit: none, the code of user u1, a code nobody owns.
Idents == {"n1", "n2"}
RegisterCodes == {"", "R1", "bad"}

\* The rows of the tasks table: the tasks clients ask for and one more.
Catalog == Tasks \cup {4}

\* A small catalog: two tasks of one type and category, two tasks of two
\* further types in a second category.
TaskType ==
  [t \in Catalog |-> IF t = 3 THEN "image_caption"
                     ELSE IF t = 4 THEN "image_tagging"
                     ELSE "audio_transcription"]
TaskCategory ==
  [t \in Catalog |-> IF t \in {3, 4} THEN "Image" ELSE "Transcription"]
TaskReward ==
  [t \in Catalog |-> IF t = 2 THEN 20 ELSE 10]
\* ORDER BY type of the catalog's type names.
TypeOrder == <<"audio_transcription", "image_caption", "image_tagging">>

\* Bounds of the model.
MaxLimit == 2
MaxRequests == 3
MaxTextLen == 4
MaxDay == 2
MaxOrders == 2

\* Program constants.
RelaxAfter == 250
RedeemFixed == 1000
LegacyDailyLimit == 5
MinAnswerLen == 2

\* Values written by initDb's seed of app_settings.
SeedSettings ==
  [tasks_per_day |-> 10,
   referral_bonus_ksh |-> 100,
   min_withdraw_ksh |-> 200,
   referral_redeem_threshold_ksh |-> 1000,
   referral_redeem_transfer_ksh |-> 1000]

\* Tables created by initDb and by tasks_transcription's initOnce.  A
\* statement on any other table fails with "no such table".
SchemaTables ==
  {"app_settings", "users", "tasks", "task_completions", "daily_tasks",
   "withdrawals", "activation_fees", "admins", "admin_audit",
   "daily_task_assignments"}

\* ------------------------------------------------------------------------
\* Sequence helpers
\* ------------------------------------------------------------------------
RECURSIVE SumSeq(_)
SumSeq(s) == IF s = <<>> THEN 0 ELSE Head(s) + SumSeq(Tail(s))

RECURSIVE Perms(_)
Perms(S) ==
  IF S = {} THEN {<<>>}
  ELSE UNION {{<<x>> \o q : q \in Perms(S \ {x})} : x \in S}

\* ------------------------------------------------------------------------
\* State
\* ------------------------------------------------------------------------
VARIABLES
  db,      \* the tables as seen through the single shared connection
  txn,     \* the connection's open transaction: [open, snap]
  loc,     \* per request slot: position and local variables of its handler
  today,   \* the current day key (dayKeyNairobi / nairobiDayExpr)
  hist     \* history: initial counters and number of applied redemptions

vars == <<db, txn, loc, today, hist>>

NoTxn == [open |-> FALSE, snap |-> <<>>]

Idle ==
  [pc |-> "idle", h |-> "none", user |-> "none", task |-> 0, ans |-> <<>>,
   amount |-> 0, day |-> 0, dt |-> 0, reward |-> 0, limit |-> 0,
   qlimit |-> 0, nexisting |-> 0, used |-> {}, usedCats |-> {},
   types |-> <<>>, cats |-> <<>>, picks |-> <<>>, attempts |-> 0,
   bonus |-> 0, balance |-> 0, threshold |-> 0, transfer |-> 0,
   updates |-> <<>>, act |-> "none", res |-> "none", rows |-> <<>>,
   ident |-> "none", code |-> "", referrer |-> "none", rb |-> 0,
   text |-> <<>>, norm |-> <<>>, renorm |-> <<>>, late |-> FALSE, ignored |-> FALSE,
   tracking |-> 0, half |-> 0]

\* The handler of slot p has sent its response r (or died with an error).
Finish(p, r) ==
  [Idle EXCEPT !.pc = "done", !.h = loc[p].h, !.user = loc[p].user,
               !.task = loc[p].task, !.day = loc[p].day, !.res = r,
               !.late = loc[p].late, !.ignored = loc[p].ignored]

At(p, label) == loc[p].pc = label

InFlight(p) == loc[p].pc \notin {"idle", "done"}

\* A request arrives at a free slot; the model follows MaxRequests requests.
Arrive(p) ==
  /\ At(p, "idle")
  /\ hist.started < MaxRequests
  /\ hist' = [hist EXCEPT !.started = @ + 1]

\* getIntSetting(key, fallback): the stored value, or the fallback when the
\* row is missing.
getIntSetting(key, fallback) ==
  IF key \in DOMAIN db.settings THEN db.settings[key] ELSE fallback

InitBalances == {0, 250}
InitBonuses == {950, 1050}
InitLimits == 1..MaxLimit
InitActive == {{1, 2}, {1, 3}, {1, 2, 3}, {3, 4}, {}}

InitStore(b, n, l, a, st) ==
  /\ db = [balance |-> [u \in Users |-> b],
           bonus |-> [u \in Users |-> n],
           settings |-> [SeedSettings EXCEPT !.tasks_per_day = l],
           active |-> a,
           daily_tasks |-> <<>>,
           daily_task_assignments |-> {},
           task_completions |-> <<>>,
           withdrawals |-> <<>>,
           bonus_redemptions |-> <<>>,
           accounts |-> <<>>,
           referrals |-> <<>>,
           admins |-> <<>>,
           fraction |-> [u \in Users |-> 0],
           activation |-> [u \in Users |-> [status |-> st, tracking |-> 0]]]
  /\ txn = NoTxn
  /\ today = 1
  /\ hist = [balance0 |-> b, bonus0 |-> n, started |-> 0,
             redeems |-> [u \in Users |-> 0],
             credit |-> [i \in Idents |-> 0]]

InitWith(b, n, l, a, st) ==
  /\ InitStore(b, n, l, a, st)
  /\ loc = [p \in Procs |-> Idle]

Init ==
  \E b \in InitBalances, n \in InitBonuses, l \in InitLimits,
     a \in InitActive, st \in {"unpaid", "paid"} :
    InitWith(b, n, l, a, st)

\* ------------------------------------------------------------------------
\* POST /api/referrals/redeem  (index.js)
\* ------------------------------------------------------------------------
BelowThreshold_Mut(bonus, threshold) == bonus <= 0

BelowThreshold(bonus, threshold) == bonus < threshold

TransferBonus_Mut(d, u, amount) ==
  [d EXCEPT !.balance[u] = @ + d.bonus[u], !.bonus[u] = 0]

\* UPDATE users SET balance_ksh = balance_ksh + ?, bonus_ksh = bonus_ksh - ?
TransferBonus(d, u, amount) ==
  [d EXCEPT !.balance[u] = @ + amount, !.bonus[u] = @ - amount]

RedeemStart(p, u) ==
  /\ Arrive(p)
  /\ loc' = [loc EXCEPT ![p] = [Idle EXCEPT !.pc = "r_user", !.h = "redeem",
                                            !.user = u]]
  /\ UNCHANGED <<db, txn, today>>

RedeemReadUser(p) ==
  /\ At(p, "r_user")
  /\ loc' = [loc EXCEPT ![p].bonus = db.bonus[loc[p].user],
                        ![p].balance = db.balance[loc[p].user],
                        ![p].pc = "r_threshold"]
  /\ UNCHANGED <<db, txn, today, hist>>

RedeemReadThreshold(p) ==
  /\ At(p, "r_threshold")
  /\ loc' = [loc EXCEPT
       ![p].threshold = getIntSetting("referral_redeem_threshold_ksh", 1000),
       ![p].pc = "r_transfer"]
  /\ UNCHANGED <<db, txn, today, hist>>

RedeemReadTransfer(p) ==
  /\ At(p, "r_transfer")
  /\ LET tr == getIntSetting("referral_redeem_transfer_ksh", 1000) IN
       IF BelowThreshold(loc[p].bonus, loc[p].threshold)
       THEN loc' = [loc EXCEPT ![p] = Finish(p, "ThresholdNotMet")]
       ELSE loc' = [loc EXCEPT ![p].transfer = tr, ![p].pc = "r_update"]
  /\ UNCHANGED <<db, txn, today, hist>>

RedeemUpdate(p) ==
  /\ At(p, "r_update")
  /\ db' = TransferBonus(db, loc[p].user, loc[p].transfer)
  /\ hist' = [hist EXCEPT !.redeems[loc[p].user] = @ + 1]
  /\ loc' = [loc EXCEPT ![p].pc = "r_respond"]
  /\ UNCHANGED <<txn, today>>

RedeemRespond(p) ==
  /\ At(p, "r_respond")
  /\ loc' = [loc EXCEPT ![p] = [Finish(p, "ok") EXCEPT
                                  !.balance = db.balance[loc[p].user],
                                  !.bonus = db.bonus[loc[p].user],
                                  !.transfer = loc[p].transfer]]
  /\ UNCHANGED <<db, txn, today, hist>>

\* ------------------------------------------------------------------------
\* router.post("/redeem")  (referrals.js): fixed 1000, then the audit row
\* ------------------------------------------------------------------------
RefRedeemStart(p, u) ==
  /\ Arrive(p)
  /\ loc' = [loc EXCEPT ![p] = [Idle EXCEPT !.pc = "rr_user", !.h = "redeemR",
                                            !.user = u]]
  /\ UNCHANGED <<db, txn, today>>

RefRedeemReadUser(p) ==
  /\ At(p, "rr_user")
  /\ IF BelowThreshold(db.bonus[loc[p].user], RedeemFixed)
     THEN loc' = [loc EXCEPT ![p] = Finish(p, "ThresholdNotMet")]
     ELSE loc' = [loc EXCEPT ![p].bonus = db.bonus[loc[p].user],
                             ![p].threshold = RedeemFixed,
                             ![p].transfer = RedeemFixed,
                             ![p].pc = "rr_update"]
  /\ UNCHANGED <<db, txn, today, hist>>

RefRedeemUpdate(p) ==
  /\ At(p, "rr_update")
  /\ db' = TransferBonus(db, loc[p].user, loc[p].transfer)
  /\ hist' = [hist EXCEPT !.redeems[loc[p].user] = @ + 1]
  /\ loc' = [loc EXCEPT ![p].pc = "rr_audit"]
  /\ UNCHANGED <<txn, today>>

\* INSERT INTO bonus_redemptions, then the response.  The rejected promise
\* of a failing statement is not caught by the handler, so no response is
\* sent when the statement fails.
RefRedeemAudit(p) ==
  /\ At(p, "rr_audit")
  /\ IF "bonus_redemptions" \in SchemaTables
     THEN /\ db' = [db EXCEPT !.bonus_redemptions =
                      Append(@, [user |-> loc[p].user,
                                 amount |-> loc[p].transfer])]
          /\ loc' = [loc EXCEPT ![p] = [Finish(p, "ok") EXCEPT
                                  !.balance = db.balance[loc[p].user],
                                  !.bonus = db.bonus[loc[p].user],
                                  !.transfer = loc[p].transfer]]
     ELSE /\ db' = db
          /\ loc' = [loc EXCEPT ![p] = Finish(p, "error")]
  /\ UNCHANGED <<txn, today, hist>>

\* ------------------------------------------------------------------------
\* router.post("/redeem")  (account.js): fixed 1000, no audit row
\* ------------------------------------------------------------------------
AccRedeemStart(p, u) ==
  /\ Arrive(p)
  /\ loc' = [loc EXCEPT ![p] = [Idle EXCEPT !.pc = "ra_user", !.h = "redeemA",
                                            !.user = u]]
  /\ UNCHANGED <<db, txn, today>>

AccRedeemReadUser(p) ==
  /\ At(p, "ra_user")
  /\ IF BelowThreshold(db.bonus[loc[p].user], RedeemFixed)
     THEN loc' = [loc EXCEPT ![p] = Finish(p, "ThresholdNotMet")]
     ELSE loc' = [loc EXCEPT ![p].bonus = db.bonus[loc[p].user],
                             ![p].threshold = RedeemFixed,
                             ![p].transfer = RedeemFixed,
                             ![p].pc = "ra_update"]
  /\ UNCHANGED <<db, txn, today, hist>>

AccRedeemUpdate(p) ==
  /\ At(p, "ra_update")
  /\ db' = TransferBonus(db, loc[p].user, RedeemFixed)
  /\ hist' = [hist EXCEPT !.redeems[loc[p].user] = @ + 1]
  /\ loc' = [loc EXCEPT ![p].pc = "ra_respond"]
  /\ UNCHANGED <<txn, today>>

AccRedeemRespond(p) ==
  /\ At(p, "ra_respond")
  /\ loc' = [loc EXCEPT ![p] = [Finish(p, "ok") EXCEPT
                                  !.balance = db.balance[loc[p].user],
                                  !.bonus = db.bonus[loc[p].user],
                                  !.transfer = RedeemFixed]]
  /\ UNCHANGED <<db, txn, today, hist>>

\* ------------------------------------------------------------------------
\* ensureDailyTasks and GET /api/tasks  (index.js)
\* ------------------------------------------------------------------------
\* Row ids (AUTOINCREMENT) are the positions in db.daily_tasks.
RowsOf(d, u, day) ==
  {i \in DOMAIN d.daily_tasks :
     d.daily_tasks[i].user = u /\ d.daily_tasks[i].day = day}

DropUsed_Mut(s, used) == s

RECURSIVE DropUsed(_, _)
DropUsed(s, used) ==
  IF s = <<>> THEN <<>>
  ELSE IF Head(s) \in used THEN DropUsed(Tail(s), used) ELSE s

\* SELECT DISTINCT type FROM tasks WHERE active=1 ORDER BY type, with the
\* hard-coded fallback list for a catalog without active types.
AllTypes(d) ==
  LET ts == SelectSeq(TypeOrder,
                      LAMBDA y : \E t \in d.active : TaskType[t] = y) IN
    IF ts = <<>>
    THEN <<"audio_transcription", "video_transcription", "image_caption",
           "image_tagging", "text_cleanup">>
    ELSE ts

ActiveCategories(d) == {TaskCategory[t] : t \in d.active}

Full(l) == Len(l.picks) + l.nexisting >= l.limit

\* ensureDailyTasks returns to GET /api/tasks: the next statement is the
\* JOIN query of the route.
ToRows(l) ==
  [l EXCEPT !.pc = "g_rows", !.limit = 0, !.nexisting = 0, !.used = {},
            !.usedCats = {}, !.types = <<>>, !.cats = <<>>,
            !.picks = <<>>, !.attempts = 0]

\* for (const tid of picks): the next INSERT OR IGNORE, if any.
ToInsert(l) ==
  IF l.picks = <<>> THEN ToRows(l)
  ELSE [l EXCEPT !.pc = "e_insert", !.used = {}, !.usedCats = {},
                 !.types = <<>>, !.cats = <<>>, !.attempts = 0,
                 !.nexisting = 0, !.limit = 0]

ToRelax_Mut(l) ==
  IF Len(l.picks) + l.nexisting >= l.limit
  THEN IF l.picks = <<>>
       THEN [l EXCEPT !.pc = "g_rows", !.limit = 0, !.nexisting = 0,
                      !.used = {}, !.usedCats = {}, !.types = <<>>,
                      !.cats = <<>>, !.picks = <<>>, !.attempts = 0]
       ELSE [l EXCEPT !.pc = "e_insert", !.used = {}, !.usedCats = {},
                      !.types = <<>>, !.cats = <<>>, !.attempts = 0,
                      !.nexisting = 0, !.limit = 0]
  ELSE [l EXCEPT !.pc = "e_relaxget", !.attempts = @ + 1,
                 !.types = <<>>, !.cats = <<>>]

\* Head of the relaxation loop: count the attempt, clear `used` after
\* RelaxAfter attempts, then draw a random active task.
ToRelax(l) ==
  IF Full(l) THEN ToInsert(l)
  ELSE IF l.attempts + 1 > RelaxAfter
       THEN [l EXCEPT !.pc = "e_relaxget", !.used = {}, !.attempts = 0,
                      !.types = <<>>, !.cats = <<>>]
       ELSE [l EXCEPT !.pc = "e_relaxget", !.attempts = @ + 1,
                      !.types = <<>>, !.cats = <<>>]

\* Head of the type loop: skip the types already used, stop when full.
ToType(l) ==
  LET rest == DropUsed(l.types, l.used) IN
    IF Full(l) \/ rest = <<>> THEN ToRelax(l)
    ELSE [l EXCEPT !.pc = "e_typeget", !.types = rest, !.cats = <<>>]

ToCat_Mut(l) == ToRelax(l)

\* Head of the category loop: skip the categories already represented.
ToCat(l) ==
  LET rest == DropUsed(l.cats, l.usedCats) IN
    IF Full(l) \/ rest = <<>> THEN ToType(l)
    ELSE [l EXCEPT !.pc = "e_catget", !.cats = rest]

TakePick(l, t) ==
  [l EXCEPT !.used = @ \cup {TaskType[t]},
            !.usedCats = @ \cup {TaskCategory[t]},
            !.picks = Append(@, t)]

\* INSERT OR IGNORE INTO daily_tasks (user_id, day_key, task_id)
InsertDailyTask_Mut(d, u, day, t) ==
  [d EXCEPT !.daily_tasks =
     Append(@, [user |-> u, day |-> day, task |-> t,
                completed |-> FALSE, answer |-> <<>>])]

InsertDailyTask(d, u, day, t) ==
  IF \E i \in DOMAIN d.daily_tasks :
       /\ d.daily_tasks[i].user = u
       /\ d.daily_tasks[i].day = day
       /\ d.daily_tasks[i].task = t
  THEN d
  ELSE [d EXCEPT !.daily_tasks =
          Append(@, [user |-> u, day |-> day, task |-> t,
                     completed |-> FALSE, answer |-> <<>>])]

\* The route's JOIN query: ORDER BY dt.id ASC LIMIT ?
RECURSIVE SortedIds(_)
SortedIds(S) ==
  IF S = {} THEN <<>>
  ELSE LET m == CHOOSE x \in S : \A y \in S : x <= y IN
         <<m>> \o SortedIds(S \ {m})

TodayRows(d, u, day, lim) ==
  LET ids == SortedIds(RowsOf(d, u, day))
      n == IF Len(ids) < lim THEN Len(ids) ELSE lim IN
    [k \in 1..n |-> [task |-> d.daily_tasks[ids[k]].task,
                     completed |-> d.daily_tasks[ids[k]].completed]]

\* rows.filter(r => !r.completed).length
Remaining(rows) == Cardinality({k \in DOMAIN rows : ~rows[k].completed})

\* Request arrives: dayKeyNairobi() is evaluated, the first statement
\* (getIntSetting of the route) is issued.
TasksStart(p, u) ==
  /\ Arrive(p)
  /\ loc' = [loc EXCEPT ![p] = [Idle EXCEPT !.pc = "g_limit", !.h = "tasks",
                                            !.user = u, !.day = today]]
  /\ UNCHANGED <<db, txn, today>>

TasksReadLimit(p) ==
  /\ At(p, "g_limit")
  /\ loc' = [loc EXCEPT ![p].qlimit = getIntSetting("tasks_per_day", 10),
                        ![p].pc = "e_clean"]
  /\ UNCHANGED <<db, txn, today, hist>>

\* PRAGMA foreign_keys, the two clean-up DELETEs and the user lookup.  No
\* user or task row is ever removed here, so the DELETEs find nothing.
EnsureClean(p) ==
  /\ At(p, "e_clean")
  /\ db' = [db EXCEPT !.daily_tasks =
              SelectSeq(@, LAMBDA r : r.user \in Users /\ r.task \in Catalog)]
  /\ loc' = [loc EXCEPT ![p].pc = "e_limit"]
  /\ UNCHANGED <<txn, today, hist>>

EnsureReadLimit(p) ==
  /\ At(p, "e_limit")
  /\ loc' = [loc EXCEPT ![p].limit = getIntSetting("tasks_per_day", 10),
                        ![p].pc = "e_existing"]
  /\ UNCHANGED <<db, txn, today, hist>>

EnsureReadExisting(p) ==
  /\ At(p, "e_existing")
  /\ LET n == Cardinality(RowsOf(db, loc[p].user, loc[p].day)) IN
       IF n >= loc[p].limit
       THEN loc' = [loc EXCEPT ![p] = ToRows(loc[p])]
       ELSE loc' = [loc EXCEPT ![p].nexisting = n, ![p].pc = "e_types"]
  /\ UNCHANGED <<db, txn, today, hist>>

EnsureReadTypes(p) ==
  /\ At(p, "e_types")
  /\ loc' = [loc EXCEPT
       ![p].used = {TaskType[db.daily_tasks[i].task] :
                      i \in RowsOf(db, loc[p].user, loc[p].day)},
       ![p].pc = "e_cats"]
  /\ UNCHANGED <<db, txn, today, hist>>

EnsureReadCats(p) ==
  /\ At(p, "e_cats")
  /\ loc' = [loc EXCEPT
       ![p].usedCats = {TaskCategory[db.daily_tasks[i].task] :
                          i \in RowsOf(db, loc[p].user, loc[p].day)},
       ![p].pc = "e_alltypes"]
  /\ UNCHANGED <<db, txn, today, hist>>

EnsureReadAllTypes(p) ==
  /\ At(p, "e_alltypes")
  /\ loc' = [loc EXCEPT ![p].types = AllTypes(db), ![p].pc = "e_catrows"]
  /\ UNCHANGED <<db, txn, today, hist>>

\* SELECT DISTINCT category ..., then the in-memory shuffle.
EnsureReadCategories(p) ==
  /\ At(p, "e_catrows")
  /\ \E order \in Perms(ActiveCategories(db)) :
       loc' = [loc EXCEPT ![p] = ToCat([loc[p] EXCEPT !.cats = order])]
  /\ UNCHANGED <<db, txn, today, hist>>

\* One iteration of the category loop: ORDER BY RANDOM() LIMIT 1 in cat.
EnsureCategoryPick(p) ==
  /\ At(p, "e_catget")
  /\ LET cat == Head(loc[p].cats)
         rest == [loc[p] EXCEPT !.cats = Tail(@)]
         cands == {t \in db.active : TaskCategory[t] = cat} IN
       IF cands = {}
       THEN loc' = [loc EXCEPT ![p] = ToCat(rest)]
       ELSE \E t \in cands :
              IF TaskType[t] \in loc[p].used
              THEN loc' = [loc EXCEPT ![p] = ToCat(rest)]
              ELSE loc' = [loc EXCEPT ![p] = ToCat(TakePick(rest, t))]
  /\ UNCHANGED <<db, txn, today, hist>>

\* One iteration of the type loop: ORDER BY RANDOM() LIMIT 1 of the type.
EnsureTypePick(p) ==
  /\ At(p, "e_typeget")
  /\ LET typ == Head(loc[p].types)
         rest == [loc[p] EXCEPT !.types = Tail(@)]
         cands == {t \in db.active : TaskType[t] = typ} IN
       IF cands = {}
       THEN loc' = [loc EXCEPT ![p] = ToType(rest)]
       ELSE \E t \in cands :
              loc' = [loc EXCEPT ![p] = ToType(TakePick(rest, t))]
  /\ UNCHANGED <<db, txn, today, hist>>

\* One draw of the relaxation loop.  A draw whose type is used only counts
\* an attempt; the run of such draws up to the RelaxAfter-th attempt is
\* taken in one step.
EnsureRelaxPick(p) ==
  /\ At(p, "e_relaxget")
  /\ IF db.active = {}
     THEN loc' = [loc EXCEPT ![p] = ToInsert(loc[p])]
     ELSE \E t \in db.active :
            IF TaskType[t] \in loc[p].used
            THEN loc' = [loc EXCEPT ![p] =
                           ToRelax([loc[p] EXCEPT !.attempts = RelaxAfter])]
            ELSE loc' = [loc EXCEPT ![p] = ToRelax(TakePick(loc[p], t))]
  /\ UNCHANGED <<db, txn, today, hist>>

\* loc[p].ignored records that an INSERT OR IGNORE of the request found its
\* row present.
EnsureInsert(p) ==
  /\ At(p, "e_insert")
  /\ db' = InsertDailyTask(db, loc[p].user, loc[p].day, Head(loc[p].picks))
  /\ loc' = [loc EXCEPT ![p] =
       ToInsert([loc[p] EXCEPT
                   !.picks = Tail(@),
                   !.ignored = @ \/ db' = db])]
  /\ UNCHANGED <<txn, today, hist>>

\* The JOIN query, the balance read and the response.
TasksRespond(p) ==
  /\ At(p, "g_rows")
  /\ loc' = [loc EXCEPT ![p] =
       [Finish(p, "ok") EXCEPT
          !.rows = TodayRows(db, loc[p].user, loc[p].day, loc[p].qlimit),
          !.balance = db.balance[loc[p].user]]]
  /\ UNCHANGED <<db, txn, today, hist>>

\* ------------------------------------------------------------------------
\* Text helpers: strings are sequences of characters.  "TAB" and "CR" are
\* the tab and carriage-return characters, "LDQ"/"RDQ" the curly double
\* quotes, "LSQ"/"RSQ" the curly single quotes, "DQ"/"SQ" the straight ones.
\* ------------------------------------------------------------------------
IsSpace(c) == c \in {" ", "TAB", "CR"}

LowerChar(c) ==
  IF c = "O" THEN "o" ELSE IF c = "K" THEN "k" ELSE c

RECURSIVE TrimLeft(_)
TrimLeft(s) ==
  IF s # <<>> /\ IsSpace(Head(s)) THEN TrimLeft(Tail(s)) ELSE s

RECURSIVE TrimRight(_)
TrimRight(s) ==
  IF s # <<>> /\ IsSpace(s[Len(s)])
  THEN TrimRight(SubSeq(s, 1, Len(s) - 1)) ELSE s

\* String.prototype.trim
Trim(s) == TrimRight(TrimLeft(s))

MapChars(s, F(_)) == [i \in 1..Len(s) |-> F(s[i])]

\* Only the first run of whitespace is replaced.
RECURSIVE CollapseSpaces_Mut(_)
CollapseSpaces_Mut(s) ==
  IF s = <<>> THEN <<>>
  ELSE IF s[1] \in {" ", "TAB", "CR"}
       THEN <<" ">> \o TrimLeft(s)
       ELSE <<s[1]>> \o CollapseSpaces_Mut(Tail(s))

\* .replace(/\s+/g, " ")
RECURSIVE CollapseSpaces(_)
CollapseSpaces(s) ==
  IF s = <<>> THEN <<>>
  ELSE IF IsSpace(Head(s))
       THEN <<" ">> \o CollapseSpaces(TrimLeft(s))
       ELSE <<Head(s)>> \o CollapseSpaces(Tail(s))

\* normalize(s) of tasks_transcription.js
normalize(s) ==
  LET noCr == SelectSeq(s, LAMBDA c : c # "CR")
      dq == MapChars(noCr, LAMBDA c : IF c \in {"LDQ", "RDQ"} THEN "DQ" ELSE c)
      sq == MapChars(dq, LAMBDA c : IF c = "RSQ" THEN "SQ" ELSE c)
      ws == CollapseSpaces(sq) IN
    MapChars(Trim(ws), LowerChar)

\* ------------------------------------------------------------------------
\* normalize applied to submitted texts  (tasks_transcription.js)
\* ------------------------------------------------------------------------
TextChars == {"o", "K", " ", "TAB", "CR", "LDQ", "LSQ", "RSQ"}

Texts == UNION {[1..k -> TextChars] : k \in 0..MaxTextLen}

\* The texts of which variants are written: one character shorter.
VariantTexts == UNION {[1..k -> TextChars] : k \in 0..(MaxTextLen - 1)}

\* normalize(body.transcription)
NormalizeText(p) ==
  /\ At(p, "n_in")
  /\ loc' = [loc EXCEPT ![p].norm = normalize(loc[p].text),
                        ![p].pc = "n_once"]
  /\ UNCHANGED <<db, txn, today, hist>>

\* normalize of a value that normalize returned
RenormalizeText(p) ==
  /\ At(p, "n_once")
  /\ loc' = [loc EXCEPT ![p].renorm = normalize(loc[p].norm),
                        ![p].pc = "n_twice"]
  /\ UNCHANGED <<db, txn, today, hist>>

\* The straight quote of a curly quote.
Straight(c) ==
  IF c \in {"LDQ", "RDQ"} THEN "DQ" ELSE IF c \in {"LSQ", "RSQ"} THEN "SQ" ELSE c

\* A second client writes the same text with one curly quote typed straight.
VaryQuote(p) ==
  /\ At(p, "n_in")
  /\ \E i \in DOMAIN loc[p].text :
       /\ loc[p].text[i] \in {"LDQ", "RDQ", "LSQ", "RSQ"}
       /\ loc' = [loc EXCEPT ![p].text[i] = Straight(@)]
  /\ UNCHANGED <<db, txn, today, hist>>

\* ... with another kind of whitespace character in a run
VarySpaceKind(p) ==
  /\ At(p, "n_in")
  /\ \E i \in DOMAIN loc[p].text, w \in {" ", "TAB", "CR"} :
       /\ loc[p].text[i] \in {" ", "TAB", "CR"}
       /\ loc[p].text[i] # w
       /\ loc' = [loc EXCEPT ![p].text[i] = w]
  /\ UNCHANGED <<db, txn, today, hist>>

\* ... with a run of whitespace one character longer
VarySpaceLength(p) ==
  /\ At(p, "n_in")
  /\ Len(loc[p].text) < MaxTextLen
  /\ \E i \in DOMAIN loc[p].text :
       /\ loc[p].text[i] \in {" ", "TAB", "CR"}
       /\ loc' = [loc EXCEPT ![p].text =
                    SubSeq(@, 1, i) \o <<@[i]>> \o SubSeq(@, i + 1, Len(@))]
  /\ UNCHANGED <<db, txn, today, hist>>

\* The reference transcription of a task (tasks.answer_text, '' by default),
\* its task_type and media_kind.
TaskAnswer ==
  [t \in Catalog |-> IF t \in {3, 4} THEN <<>> ELSE <<"o", "k">>]
TaskKind ==
  [t \in Catalog |-> IF t \in {3, 4} THEN "generic" ELSE "transcription"]
TaskMedia ==
  [t \in Catalog |-> IF t = 1 THEN "audio" ELSE "text"]

\* ------------------------------------------------------------------------
\* The connection's transaction statements
\* ------------------------------------------------------------------------
\* BEGIN is rejected while a transaction is open on the connection.
CanBegin == ~txn.open

Begin == [open |-> TRUE, snap |-> db]

\* ------------------------------------------------------------------------
\* POST /api/tasks/:id/complete  (index.js)
\* ------------------------------------------------------------------------
AssignmentOf_Mut(d, u, day, t) ==
  {i \in DOMAIN d.daily_tasks :
     d.daily_tasks[i].user = u /\ d.daily_tasks[i].task = t}

AssignmentOf(d, u, day, t) ==
  {i \in DOMAIN d.daily_tasks :
     /\ d.daily_tasks[i].user = u
     /\ d.daily_tasks[i].day = day
     /\ d.daily_tasks[i].task = t}

StampCompleted_Mut(d, id, ans) == [d EXCEPT !.daily_tasks[id].answer = ans]

\* UPDATE daily_tasks SET completed_at=CURRENT_TIMESTAMP, answer_text=?
StampCompleted(d, id, ans) ==
  [d EXCEPT !.daily_tasks[id].completed = TRUE,
            !.daily_tasks[id].answer = ans]

\* INSERT INTO task_completions (user_id, task_id, reward_ksh, ...)
RecordCompletion(d, u, t, reward, day) ==
  [d EXCEPT !.task_completions =
     Append(@, [user |-> u, task |-> t, reward |-> reward, day |-> day])]

CreditBalance_Mut(d, u, reward) == [d EXCEPT !.balance[u] = reward]

\* UPDATE users SET balance_ksh = balance_ksh + ?
CreditBalance(d, u, reward) == [d EXCEPT !.balance[u] = @ + reward]

\* loc[p].late records that the request arrived after a completion of the
\* same user and task was committed on the same day.
CompleteStart(p, u, t, a) ==
  /\ Arrive(p)
  /\ LET l == [Idle EXCEPT !.h = "complete", !.user = u, !.task = t,
                           !.day = today, !.ans = Trim(a),
                           !.late = /\ ~txn.open
                                    /\ Len(Trim(a)) >= MinAnswerLen
                                    /\ \E i \in DOMAIN db.task_completions :
                                         /\ db.task_completions[i].user = u
                                         /\ db.task_completions[i].task = t
                                         /\ db.task_completions[i].day = today]
     IN
       IF Len(Trim(a)) < MinAnswerLen
       THEN loc' = [loc EXCEPT ![p] =
                      [l EXCEPT !.pc = "done", !.ans = <<>>,
                                !.res = "InvalidAnswer"]]
       ELSE loc' = [loc EXCEPT ![p] = [l EXCEPT !.pc = "c_dt"]]
  /\ UNCHANGED <<db, txn, today>>

CompleteReadAssignment(p) ==
  /\ At(p, "c_dt")
  /\ LET ids == AssignmentOf(db, loc[p].user, loc[p].day, loc[p].task) IN
       IF ids = {}
       THEN loc' = [loc EXCEPT ![p] = Finish(p, "NotAssigned")]
       ELSE LET id == CHOOSE i \in ids : TRUE IN
              IF db.daily_tasks[id].completed
              THEN loc' = [loc EXCEPT ![p] = Finish(p, "AlreadyCompleted")]
              ELSE loc' = [loc EXCEPT ![p].dt = id, ![p].pc = "c_task"]
  /\ UNCHANGED <<db, txn, today, hist>>

CompleteReadTask(p) ==
  /\ At(p, "c_task")
  /\ IF loc[p].task \in db.active
     THEN loc' = [loc EXCEPT ![p].reward = TaskReward[loc[p].task],
                             ![p].pc = "c_begin"]
     ELSE loc' = [loc EXCEPT ![p] = Finish(p, "TaskInactive")]
  /\ UNCHANGED <<db, txn, today, hist>>

\* await run("BEGIN") stands outside the inner try: its failure is answered
\* with a 500 and no ROLLBACK.
CompleteBegin(p) ==
  /\ At(p, "c_begin")
  /\ IF CanBegin
     THEN /\ txn' = Begin
          /\ loc' = [loc EXCEPT ![p].pc = "c_stamp"]
     ELSE /\ txn' = txn
          /\ loc' = [loc EXCEPT ![p] = Finish(p, "error")]
  /\ UNCHANGED <<db, today, hist>>

CompleteStamp(p) ==
  /\ At(p, "c_stamp")
  /\ db' = StampCompleted(db, loc[p].dt, loc[p].ans)
  /\ loc' = [loc EXCEPT ![p].pc = "c_record"]
  /\ UNCHANGED <<txn, today, hist>>

CompleteRecord(p) ==
  /\ At(p, "c_record")
  /\ db' = RecordCompletion(db, loc[p].user, loc[p].task, loc[p].reward, today)
  /\ loc' = [loc EXCEPT ![p].pc = "c_credit"]
  /\ UNCHANGED <<txn, today, hist>>

CompleteCredit(p) ==
  /\ At(p, "c_credit")
  /\ db' = CreditBalance(db, loc[p].user, loc[p].reward)
  /\ loc' = [loc EXCEPT ![p].pc = "c_commit"]
  /\ UNCHANGED <<txn, today, hist>>

CompleteCommit(p) ==
  /\ At(p, "c_commit")
  /\ txn' = NoTxn
  /\ loc' = [loc EXCEPT ![p].pc = "c_respond"]
  /\ UNCHANGED <<db, today, hist>>

\* The balance read, the limit read, the JOIN query and the response.
CompleteRespond(p) ==
  /\ At(p, "c_respond")
  /\ loc' = [loc EXCEPT ![p] =
       [Finish(p, "ok") EXCEPT
          !.balance = db.balance[loc[p].user],
          !.reward = loc[p].reward,
          !.rows = TodayRows(db, loc[p].user, loc[p].day,
                             getIntSetting("tasks_per_day", 10))]]
  /\ UNCHANGED <<db, txn, today, hist>>

\* ------------------------------------------------------------------------
\* ensureAssignments and GET /daily/tasks  (tasks_transcription.js)
\* ------------------------------------------------------------------------
LegacyRows(d, u, day) ==
  {r \in d.daily_task_assignments : r.user = u /\ r.day = day}

Transcriptions(d) == {t \in d.active : TaskKind[t] = "transcription"}

MediaTranscriptions(d) == {t \in Transcriptions(d) : TaskMedia[t] # "text"}

\* ORDER BY RANDOM() LIMIT n over a candidate set: any n of them, any order.
RandomLimit(S, n) ==
  LET k == IF Cardinality(S) < n THEN Cardinality(S) ELSE n IN
    UNION {Perms(T) : T \in {X \in SUBSET S : Cardinality(X) = k}}

CompletionsOn(d, u, day) ==
  {i \in DOMAIN d.task_completions :
     d.task_completions[i].user = u /\ d.task_completions[i].day = day}

LegacyTasksStart(p, u) ==
  /\ Arrive(p)
  /\ loc' = [loc EXCEPT ![p] = [Idle EXCEPT !.pc = "l_day", !.h = "ltasks",
                                            !.user = u]]
  /\ UNCHANGED <<db, txn, today>>

\* SELECT date(datetime('now','+3 hours'))
LegacyReadDay(p) ==
  /\ At(p, "l_day")
  /\ loc' = [loc EXCEPT ![p].day = today, ![p].pc = "l_existing"]
  /\ UNCHANGED <<db, txn, today, hist>>

LegacyReadExisting(p) ==
  /\ At(p, "l_existing")
  /\ LET ex == {r.task : r \in LegacyRows(db, loc[p].user, loc[p].day)} IN
       IF Cardinality(ex) >= LegacyDailyLimit
       THEN loc' = [loc EXCEPT ![p].pc = "l_rows"]
       ELSE loc' = [loc EXCEPT ![p].used = ex,
                               ![p].nexisting = Cardinality(ex),
                               ![p].pc = "l_hasmedia"]
  /\ UNCHANGED <<db, txn, today, hist>>

LegacyReadHasMedia(p) ==
  /\ At(p, "l_hasmedia")
  /\ IF loc[p].nexisting = 0 /\ MediaTranscriptions(db) # {}
     THEN loc' = [loc EXCEPT ![p].pc = "l_mediapick"]
     ELSE loc' = [loc EXCEPT ![p].pc = "l_more"]
  /\ UNCHANGED <<db, txn, today, hist>>

LegacyMediaPick(p) ==
  /\ At(p, "l_mediapick")
  /\ \E pick \in RandomLimit(MediaTranscriptions(db), 1) :
       LET need == LegacyDailyLimit - loc[p].nexisting IN
         IF need - Len(pick) > 0
         THEN loc' = [loc EXCEPT ![p].picks = pick, ![p].pc = "l_more"]
         ELSE loc' = [loc EXCEPT ![p].picks = pick, ![p].pc = "l_insert"]
  /\ UNCHANGED <<db, txn, today, hist>>

LegacyPickMore(p) ==
  /\ At(p, "l_more")
  /\ LET remainingNeed == LegacyDailyLimit - loc[p].nexisting
                            - Len(loc[p].picks)
         cands == Transcriptions(db) \ loc[p].used IN
       \E more \in RandomLimit(cands, remainingNeed) :
         LET picked == loc[p].picks \o more IN
           loc' = [loc EXCEPT ![p].picks = picked, ![p].used = {},
                              ![p].nexisting = 0,
                              ![p].pc = IF picked = <<>> THEN "l_rows"
                                        ELSE "l_insert"]
  /\ UNCHANGED <<db, txn, today, hist>>

\* INSERT OR IGNORE INTO daily_task_assignments (user_id, day, task_id)
LegacyInsert(p) ==
  /\ At(p, "l_insert")
  /\ db' = [db EXCEPT !.daily_task_assignments =
              @ \cup {[user |-> loc[p].user, day |-> loc[p].day,
                       task |-> Head(loc[p].picks)]}]
  /\ loc' = [loc EXCEPT ![p].picks = Tail(@),
                        ![p].pc = IF Tail(loc[p].picks) = <<>> THEN "l_rows"
                                  ELSE "l_insert"]
  /\ UNCHANGED <<txn, today, hist>>

\* The two queries of the route (assigned tasks, today's completions) and
\* the response.
LegacyTasksRespond(p) ==
  /\ At(p, "l_rows")
  /\ LET done == {db.task_completions[i].task :
                    i \in CompletionsOn(db, loc[p].user, loc[p].day)}
         ids == SortedIds({r.task :
                             r \in LegacyRows(db, loc[p].user, loc[p].day)}) IN
       loc' = [loc EXCEPT ![p] =
         [Finish(p, "ok") EXCEPT
            !.rows = [k \in DOMAIN ids |->
                        [task |-> ids[k], completed |-> ids[k] \in done]]]]
  /\ UNCHANGED <<db, txn, today, hist>>

\* ------------------------------------------------------------------------
\* POST /daily/tasks/:id/complete  (tasks_transcription.js)
\* ------------------------------------------------------------------------
LegacyCompleteStart(p, u, t, a) ==
  /\ Arrive(p)
  /\ loc' = [loc EXCEPT ![p] = [Idle EXCEPT !.pc = "lc_day",
                                            !.h = "lcomplete", !.user = u,
                                            !.task = t, !.ans = a]]
  /\ UNCHANGED <<db, txn, today>>

LegacyCompleteReadDay(p) ==
  /\ At(p, "lc_day")
  /\ loc' = [loc EXCEPT ![p].day = today, ![p].pc = "lc_count"]
  /\ UNCHANGED <<db, txn, today, hist>>

LegacyCompleteCount(p) ==
  /\ At(p, "lc_count")
  /\ IF Cardinality(CompletionsOn(db, loc[p].user, loc[p].day))
          >= LegacyDailyLimit
     THEN loc' = [loc EXCEPT ![p] = Finish(p, "DailyLimit")]
     ELSE loc' = [loc EXCEPT ![p].pc = "lc_assigned"]
  /\ UNCHANGED <<db, txn, today, hist>>

LegacyCompleteAssigned(p) ==
  /\ At(p, "lc_assigned")
  /\ IF [user |-> loc[p].user, day |-> loc[p].day, task |-> loc[p].task]
          \in db.daily_task_assignments
     THEN loc' = [loc EXCEPT ![p].pc = "lc_already"]
     ELSE loc' = [loc EXCEPT ![p] = Finish(p, "NotAssigned")]
  /\ UNCHANGED <<db, txn, today, hist>>

LegacyCompleteAlready(p) ==
  /\ At(p, "lc_already")
  /\ IF \E i \in CompletionsOn(db, loc[p].user, loc[p].day) :
          db.task_completions[i].task = loc[p].task
     THEN loc' = [loc EXCEPT ![p] = Finish(p, "AlreadyCompleted")]
     ELSE loc' = [loc EXCEPT ![p].pc = "lc_task"]
  /\ UNCHANGED <<db, txn, today, hist>>

\* The task lookup, then the zod check and the normalized comparison.
LegacyCompleteReadTask(p) ==
  /\ At(p, "lc_task")
  /\ IF loc[p].task \notin db.active
     THEN loc' = [loc EXCEPT ![p] = Finish(p, "TaskInactive")]
     ELSE IF \/ Len(loc[p].ans) < 1
             \/ normalize(loc[p].ans) # normalize(TaskAnswer[loc[p].task])
          THEN loc' = [loc EXCEPT ![p] = Finish(p, "InvalidAnswer")]
          ELSE loc' = [loc EXCEPT ![p].reward = TaskReward[loc[p].task],
                                  ![p].ans = <<>>,
                                  ![p].pc = "lc_record"]
  /\ UNCHANGED <<db, txn, today, hist>>

LegacyCompleteRecord(p) ==
  /\ At(p, "lc_record")
  /\ db' = RecordCompletion(db, loc[p].user, loc[p].task, loc[p].reward, today)
  /\ loc' = [loc EXCEPT ![p].pc = "lc_credit"]
  /\ UNCHANGED <<txn, today, hist>>

LegacyCompleteCredit(p) ==
  /\ At(p, "lc_credit")
  /\ db' = CreditBalance(db, loc[p].user, loc[p].reward)
  /\ loc' = [loc EXCEPT ![p].pc = "lc_respond"]
  /\ UNCHANGED <<txn, today, hist>>

LegacyCompleteRespond(p) ==
  /\ At(p, "lc_respond")
  /\ loc' = [loc EXCEPT ![p] =
       [Finish(p, "ok") EXCEPT !.balance = db.balance[loc[p].user],
                               !.reward = loc[p].reward]]
  /\ UNCHANGED <<db, txn, today, hist>>

\* ------------------------------------------------------------------------
\* A statement of the completion transaction is rejected by the store: the
\* inner catch issues ROLLBACK and the request is answered with a 500.
\* ------------------------------------------------------------------------
CompleteWriteFails(p) ==
  /\ loc[p].pc \in {"c_stamp", "c_record", "c_credit", "c_commit"}
  /\ loc' = [loc EXCEPT ![p].pc = "c_rollback"]
  /\ UNCHANGED <<db, txn, today, hist>>

\* ROLLBACK discards every write made on the connection since BEGIN.
CompleteRollback(p) ==
  /\ At(p, "c_rollback")
  /\ db' = IF txn.open THEN txn.snap ELSE db
  /\ txn' = NoTxn
  /\ loc' = [loc EXCEPT ![p] = Finish(p, "error")]
  /\ UNCHANGED <<today, hist>>

\* The server process dies and restarts: requests in flight are lost and
\* the store recovers without the writes of an uncommitted transaction.
Crash ==
  /\ \E p \in Procs : loc[p].pc \notin {"idle", "done"}
  /\ db' = IF txn.open THEN txn.snap ELSE db
  /\ txn' = NoTxn
  /\ loc' = [p \in Procs |-> Idle]
  /\ UNCHANGED <<today, hist>>

\* ------------------------------------------------------------------------
\* POST /api/admin/settings  (index.js)
\* ------------------------------------------------------------------------
\* INSERT ... ON CONFLICT(key) DO UPDATE SET value=excluded.value
UpsertSetting(d, k, v) == [d EXCEPT !.settings[k] = v]

SettingsInputs ==
  {<<[key |-> "tasks_per_day", value |-> v]>> : v \in 1..MaxLimit}

SettingsStart(p, upd) ==
  /\ Arrive(p)
  /\ loc' = [loc EXCEPT ![p] = [Idle EXCEPT !.pc = "s_begin",
                                            !.h = "settings",
                                            !.updates = upd]]
  /\ UNCHANGED <<db, txn, today>>

SettingsBegin(p) ==
  /\ At(p, "s_begin")
  /\ IF CanBegin
     THEN /\ txn' = Begin
          /\ loc' = [loc EXCEPT ![p].pc = IF loc[p].updates = <<>>
                                          THEN "s_commit" ELSE "s_upsert"]
     ELSE /\ txn' = txn
          /\ loc' = [loc EXCEPT ![p] = Finish(p, "error")]
  /\ UNCHANGED <<db, today, hist>>

SettingsUpsert(p) ==
  /\ At(p, "s_upsert")
  /\ LET e == Head(loc[p].updates) IN
       db' = UpsertSetting(db, e.key, e.value)
  /\ loc' = [loc EXCEPT ![p].updates = Tail(@),
                        ![p].pc = IF Tail(loc[p].updates) = <<>>
                                  THEN "s_commit" ELSE "s_upsert"]
  /\ UNCHANGED <<txn, today, hist>>

SettingsCommit(p) ==
  /\ At(p, "s_commit")
  /\ txn' = NoTxn
  /\ loc' = [loc EXCEPT ![p].pc = "s_respond"]
  /\ UNCHANGED <<db, today, hist>>

\* The audit row, the settings read and the response.
SettingsRespond(p) ==
  /\ At(p, "s_respond")
  /\ loc' = [loc EXCEPT ![p] = Finish(p, "ok")]
  /\ UNCHANGED <<db, txn, today, hist>>

\* ------------------------------------------------------------------------
\* POST /api/withdrawals  (index.js)
\* ------------------------------------------------------------------------
WithdrawAmounts == {100, 200}

\* data.amount is any positive number: `amount` shillings and `half` (0 or
\* 1) half shillings.  balance_ksh goes fractional with it: the stored value
\* is d.balance[u] shillings and d.fraction[u] half shillings.
Halves(whole, half) == 2 * whole + half

\* Math.floor
Floor(halves) == halves \div 2

\* UPDATE users SET balance_ksh = balance_ksh - ?
DebitBalance(d, u, amount, half) ==
  LET total == Halves(d.balance[u], d.fraction[u]) - Halves(amount, half) IN
    [d EXCEPT !.balance[u] = Floor(total), !.fraction[u] = total % 2]

\* INSERT INTO withdrawals (user_id, amount_ksh, ...) with Math.floor(amount)
InsertWithdrawal(d, u, amount, half) ==
  [d EXCEPT !.withdrawals =
     Append(@, [user |-> u, amount |-> Floor(Halves(amount, half))])]

HasEnough(balance, amount) == ~(balance < amount)

WithdrawStart(p, u, amt, half) ==
  /\ Arrive(p)
  /\ Halves(amt, half) > 0
  /\ loc' = [loc EXCEPT ![p] = [Idle EXCEPT !.pc = "w_ensure",
                                            !.h = "withdraw", !.user = u,
                                            !.amount = amt, !.half = half]]
  /\ UNCHANGED <<db, txn, today>>

\* ensureActivationRow: the row exists since registration and the fee is
\* fixed, so INSERT OR IGNORE and the fee UPDATE leave the table as it is.
WithdrawEnsureActivation(p) ==
  /\ At(p, "w_ensure")
  /\ loc' = [loc EXCEPT ![p].pc = "w_actrow"]
  /\ UNCHANGED <<db, txn, today, hist>>

\* if (!act || act.status !== "paid") of the withdrawal route
ActivationPaid_Mut(row) == row.status # "unpaid"

ActivationPaid(row) == row.status = "paid"

\* getTransactionStatus answers for the order of the row; the answer decides
\* the UPDATE, an exception of the call is swallowed.
ProviderOutcomes == {"COMPLETED", "PENDING", "throw"}

ProviderUpdate(d, u, outcome) ==
  IF outcome = "COMPLETED"
  THEN [d EXCEPT !.activation[u].status = "paid"]
  ELSE IF outcome = "PENDING"
       THEN [d EXCEPT !.activation[u].status =
                         IF @ = "unpaid" THEN "pending" ELSE @]
       ELSE d

\* refreshActivationFromProvider reads the row; a paid row is returned as
\* read, a row with a tracking id sends the request to the provider.
WithdrawReadActivation(p) ==
  /\ At(p, "w_actrow")
  /\ LET row == db.activation[loc[p].user] IN
       IF row.status = "paid"
       THEN IF ActivationPaid(row)
            THEN loc' = [loc EXCEPT ![p].act = "paid", ![p].pc = "w_min"]
            ELSE loc' = [loc EXCEPT ![p] = Finish(p, "ActivationRequired")]
       ELSE IF row.tracking # 0
            THEN loc' = [loc EXCEPT ![p].pc = "w_provider"]
            ELSE loc' = [loc EXCEPT ![p].pc = "w_actget"]
  /\ UNCHANGED <<db, txn, today, hist>>

WithdrawProvider(p) ==
  /\ At(p, "w_provider")
  /\ \E o \in ProviderOutcomes : db' = ProviderUpdate(db, loc[p].user, o)
  /\ loc' = [loc EXCEPT ![p].pc = "w_actget"]
  /\ UNCHANGED <<txn, today, hist>>

WithdrawRereadActivation(p) ==
  /\ At(p, "w_actget")
  /\ IF ActivationPaid(db.activation[loc[p].user])
     THEN loc' = [loc EXCEPT ![p].act = "paid", ![p].pc = "w_min"]
     ELSE loc' = [loc EXCEPT ![p] = Finish(p, "ActivationRequired")]
  /\ UNCHANGED <<db, txn, today, hist>>

WithdrawReadMinimum(p) ==
  /\ At(p, "w_min")
  /\ IF Halves(loc[p].amount, loc[p].half)
          < Halves(getIntSetting("min_withdraw_ksh", 200), 0)
     THEN loc' = [loc EXCEPT ![p] = Finish(p, "BelowMinimum")]
     ELSE loc' = [loc EXCEPT ![p].pc = "w_balance"]
  /\ UNCHANGED <<db, txn, today, hist>>

WithdrawReadBalance(p) ==
  /\ At(p, "w_balance")
  /\ IF HasEnough(Halves(db.balance[loc[p].user], db.fraction[loc[p].user]),
                 Halves(loc[p].amount, loc[p].half))
     THEN loc' = [loc EXCEPT ![p].pc = "w_begin"]
     ELSE loc' = [loc EXCEPT ![p] = Finish(p, "InsufficientBalance")]
  /\ UNCHANGED <<db, txn, today, hist>>

WithdrawBegin(p) ==
  /\ At(p, "w_begin")
  /\ IF CanBegin
     THEN /\ txn' = Begin
          /\ loc' = [loc EXCEPT ![p].pc = "w_debit"]
     ELSE /\ txn' = txn
          /\ loc' = [loc EXCEPT ![p] = Finish(p, "error")]
  /\ UNCHANGED <<db, today, hist>>

WithdrawDebit(p) ==
  /\ At(p, "w_debit")
  /\ db' = DebitBalance(db, loc[p].user, loc[p].amount, loc[p].half)
  /\ loc' = [loc EXCEPT ![p].pc = "w_row"]
  /\ UNCHANGED <<txn, today, hist>>

WithdrawInsert(p) ==
  /\ At(p, "w_row")
  /\ db' = InsertWithdrawal(db, loc[p].user, loc[p].amount, loc[p].half)
  /\ loc' = [loc EXCEPT ![p].pc = "w_commit"]
  /\ UNCHANGED <<txn, today, hist>>

WithdrawCommit(p) ==
  /\ At(p, "w_commit")
  /\ txn' = NoTxn
  /\ loc' = [loc EXCEPT ![p].pc = "w_respond"]
  /\ UNCHANGED <<db, today, hist>>

WithdrawRespond(p) ==
  /\ At(p, "w_respond")
  /\ loc' = [loc EXCEPT ![p] =
       [Finish(p, "ok") EXCEPT !.balance = db.balance[loc[p].user]]]
  /\ UNCHANGED <<db, txn, today, hist>>

\* ------------------------------------------------------------------------
\* GET /api/activation, GET /api/activation/callback, /api/activation/ipn
\* (index.js): refreshActivationFromProvider for the user of the request or
\* of the order named by the provider.
\* ------------------------------------------------------------------------
ActivationStart(p, u) ==
  /\ Arrive(p)
  /\ loc' = [loc EXCEPT ![p] = [Idle EXCEPT !.pc = "a_ensure",
                                            !.h = "activation", !.user = u]]
  /\ UNCHANGED <<db, txn, today>>

CallbackStart(p, u, k) ==
  /\ Arrive(p)
  /\ loc' = [loc EXCEPT ![p] = [Idle EXCEPT !.pc = "a_lookup",
                                            !.h = "callback", !.user = u,
                                            !.tracking = k]]
  /\ UNCHANGED <<db, txn, today>>

IpnStart(p, u, k) ==
  /\ Arrive(p)
  /\ loc' = [loc EXCEPT ![p] = [Idle EXCEPT !.pc = "a_lookup",
                                            !.h = "ipn", !.user = u,
                                            !.tracking = k]]
  /\ UNCHANGED <<db, txn, today>>

\* SELECT user_id FROM activation_fees WHERE provider_order_tracking_id=? ...
ActivationLookup(p) ==
  /\ At(p, "a_lookup")
  /\ IF db.activation[loc[p].user].tracking = loc[p].tracking
     THEN loc' = [loc EXCEPT ![p].pc = "a_ensure"]
     ELSE loc' = [loc EXCEPT ![p] = Finish(p, "ok")]
  /\ UNCHANGED <<db, txn, today, hist>>

\* ensureActivationRow: the row exists since registration and the fee is
\* fixed, so its two statements leave the table as it is.
ActivationEnsure(p) ==
  /\ At(p, "a_ensure")
  /\ loc' = [loc EXCEPT ![p].pc = "a_row"]
  /\ UNCHANGED <<db, txn, today, hist>>

ActivationReadRow(p) ==
  /\ At(p, "a_row")
  /\ LET row == db.activation[loc[p].user] IN
       IF row.status = "paid"
       THEN loc' = [loc EXCEPT ![p] = [Finish(p, "ok") EXCEPT !.act = "paid"]]
       ELSE IF row.tracking # 0
            THEN loc' = [loc EXCEPT ![p].pc = "a_provider"]
            ELSE loc' = [loc EXCEPT ![p].pc = "a_get"]
  /\ UNCHANGED <<db, txn, today, hist>>

ActivationProvider(p) ==
  /\ At(p, "a_provider")
  /\ \E o \in ProviderOutcomes : db' = ProviderUpdate(db, loc[p].user, o)
  /\ loc' = [loc EXCEPT ![p].pc = "a_get"]
  /\ UNCHANGED <<txn, today, hist>>

\* The final SELECT of the row and the response.
ActivationRespond(p) ==
  /\ At(p, "a_get")
  /\ loc' = [loc EXCEPT ![p] =
       [Finish(p, "ok") EXCEPT !.act = db.activation[loc[p].user].status]]
  /\ UNCHANGED <<db, txn, today, hist>>

\* ------------------------------------------------------------------------
\* POST /api/activation/initiate  (index.js)
\* ------------------------------------------------------------------------
\* The tracking id of the next order the provider creates.
NextOrder ==
  LET ids == {db.activation[u].tracking : u \in Users}
               \cup {loc[q].tracking : q \in {r \in Procs : loc[r].h = "initiate"}}
  IN 1 + CHOOSE m \in ids : \A k \in ids : k <= m

\* UPDATE activation_fees SET status='pending', provider='pesapal',
\* provider_order_tracking_id=? ...
SetPending(d, u, k) ==
  [d EXCEPT !.activation[u] = [status |-> "pending", tracking |-> k]]

InitiateStart(p, u) ==
  /\ Arrive(p)
  /\ loc' = [loc EXCEPT ![p] = [Idle EXCEPT !.pc = "i_ensure",
                                            !.h = "initiate", !.user = u]]
  /\ UNCHANGED <<db, txn, today>>

InitiateEnsure(p) ==
  /\ At(p, "i_ensure")
  /\ loc' = [loc EXCEPT ![p].pc = "i_act"]
  /\ UNCHANGED <<db, txn, today, hist>>

InitiateReadActivation(p) ==
  /\ At(p, "i_act")
  /\ IF db.activation[loc[p].user].status = "paid"
     THEN loc' = [loc EXCEPT ![p] = [Finish(p, "ok") EXCEPT !.act = "paid"]]
     ELSE loc' = [loc EXCEPT ![p].pc = "i_user"]
  /\ UNCHANGED <<db, txn, today, hist>>

InitiateReadUser(p) ==
  /\ At(p, "i_user")
  /\ loc' = [loc EXCEPT ![p].pc = "i_submit"]
  /\ UNCHANGED <<db, txn, today, hist>>

\* submitOrder: the provider creates the order or the call throws.
InitiateSubmit(p) ==
  /\ At(p, "i_submit")
  /\ \/ /\ NextOrder <= MaxOrders
        /\ loc' = [loc EXCEPT ![p].tracking = NextOrder, ![p].pc = "i_update"]
     \/ loc' = [loc EXCEPT ![p] = Finish(p, "error")]
  /\ UNCHANGED <<db, txn, today, hist>>

InitiateUpdate(p) ==
  /\ At(p, "i_update")
  /\ db' = SetPending(db, loc[p].user, loc[p].tracking)
  /\ loc' = [loc EXCEPT ![p] = Finish(p, "ok")]
  /\ UNCHANGED <<txn, today, hist>>

\* ------------------------------------------------------------------------
\* POST /api/admin/users/:id/activation  (index.js)
\* ------------------------------------------------------------------------
\* UPDATE activation_fees SET paid_ksh=..., status=?, paid_at=...
SetActivation(d, u, st) == [d EXCEPT !.activation[u].status = st]

AdminActivationStart(p, u, st) ==
  /\ Arrive(p)
  /\ loc' = [loc EXCEPT ![p] = [Idle EXCEPT !.pc = "aa_ensure",
                                            !.h = "adminact", !.user = u,
                                            !.act = st]]
  /\ UNCHANGED <<db, txn, today>>

\* INSERT OR IGNORE INTO activation_fees: the row exists.
AdminActivationEnsure(p) ==
  /\ At(p, "aa_ensure")
  /\ loc' = [loc EXCEPT ![p].pc = "aa_update"]
  /\ UNCHANGED <<db, txn, today, hist>>

AdminActivationUpdate(p) ==
  /\ At(p, "aa_update")
  /\ db' = SetActivation(db, loc[p].user, loc[p].act)
  /\ loc' = [loc EXCEPT ![p].pc = "aa_audit"]
  /\ UNCHANGED <<txn, today, hist>>

\* The audit row, the read of the row and the response.
AdminActivationRespond(p) ==
  /\ At(p, "aa_audit")
  /\ loc' = [loc EXCEPT ![p] =
       [Finish(p, "ok") EXCEPT !.act = db.activation[loc[p].user].status]]
  /\ UNCHANGED <<db, txn, today, hist>>

\* ------------------------------------------------------------------------
\* POST /api/admin/bootstrap  (index.js), called with the configured setup
\* key and the identity (username and email) of the admin to create.
\* ------------------------------------------------------------------------
AdminIdents == {"a1", "a2"}

\* INSERT INTO admins (...) VALUES (?,?,?,'superadmin',1)
InsertAdmin(d, i) ==
  [d EXCEPT !.admins = Append(@, [ident |-> i, role |-> "superadmin"])]

BootstrapStart(p, i) ==
  /\ Arrive(p)
  /\ loc' = [loc EXCEPT ![p] = [Idle EXCEPT !.pc = "b_count",
                                            !.h = "bootstrap", !.ident = i]]
  /\ UNCHANGED <<db, txn, today>>

\* SELECT COUNT(*) AS n FROM admins
BootstrapCount(p) ==
  /\ At(p, "b_count")
  /\ IF Len(db.admins) > 0
     THEN loc' = [loc EXCEPT ![p] = Finish(p, "AdminsExist")]
     ELSE loc' = [loc EXCEPT ![p].pc = "b_hash"]
  /\ UNCHANGED <<db, txn, today, hist>>

\* await bcrypt.hash(data.password, 10)
BootstrapHash(p) ==
  /\ At(p, "b_hash")
  /\ loc' = [loc EXCEPT ![p].pc = "b_insert"]
  /\ UNCHANGED <<db, txn, today, hist>>

\* The INSERT fails on a username or email already stored (UNIQUE).
BootstrapInsert(p) ==
  /\ At(p, "b_insert")
  /\ IF \E k \in DOMAIN db.admins : db.admins[k].ident = loc[p].ident
     THEN /\ db' = db
          /\ loc' = [loc EXCEPT ![p] = Finish(p, "error")]
     ELSE /\ db' = InsertAdmin(db, loc[p].ident)
          /\ loc' = [loc EXCEPT ![p] = Finish(p, "ok")]
  /\ UNCHANGED <<txn, today, hist>>

\* ------------------------------------------------------------------------
\* POST /api/auth/register  (index.js)
\* ------------------------------------------------------------------------
\* SELECT id FROM users WHERE referral_code = ?
CodeOwner(c) == IF c = "R1" THEN "u1" ELSE "none"

\* SELECT id FROM users WHERE email = ? / username = ?
Registered(d, i) == \E k \in DOMAIN d.accounts : d.accounts[k].ident = i

\* INSERT INTO users (..., referred_by, balance_ksh, bonus_ksh)
InsertUser(d, i, r) ==
  [d EXCEPT !.accounts = Append(@, [ident |-> i, referred_by |-> r,
                                    fee |-> FALSE])]

\* INSERT OR IGNORE INTO activation_fees for the new user
InsertActivationFee(d, i) ==
  [d EXCEPT !.accounts =
     [k \in DOMAIN @ |-> IF @[k].ident = i THEN [@[k] EXCEPT !.fee = TRUE]
                         ELSE @[k]]]

CreditBonus_Mut(d, u, amount) == [d EXCEPT !.balance[u] = @ + amount]

\* UPDATE users SET bonus_ksh = bonus_ksh + ? WHERE id = ?
CreditBonus(d, u, amount) == [d EXCEPT !.bonus[u] = @ + amount]

RegisterStart(p, i, c) ==
  /\ Arrive(p)
  /\ loc' = [loc EXCEPT ![p] = [Idle EXCEPT !.pc = "g_email", !.h = "register",
                                            !.ident = i, !.code = c]]
  /\ UNCHANGED <<db, txn, today>>

RegisterReadEmail(p) ==
  /\ At(p, "g_email")
  /\ IF Registered(db, loc[p].ident)
     THEN loc' = [loc EXCEPT ![p] =
                    [Finish(p, "EmailTaken") EXCEPT !.ident = loc[p].ident]]
     ELSE loc' = [loc EXCEPT ![p].pc = "g_username"]
  /\ UNCHANGED <<db, txn, today, hist>>

\* The username read; without a referral code the next statement is
\* bcrypt.hash.
RegisterReadUsername(p) ==
  /\ At(p, "g_username")
  /\ IF Registered(db, loc[p].ident)
     THEN loc' = [loc EXCEPT ![p] =
                    [Finish(p, "UsernameTaken") EXCEPT !.ident = loc[p].ident]]
     ELSE loc' = [loc EXCEPT ![p].pc =
                    IF loc[p].code # "" THEN "g_ref" ELSE "g_hash"]
  /\ UNCHANGED <<db, txn, today, hist>>

RegisterReadReferrer(p) ==
  /\ At(p, "g_ref")
  /\ IF CodeOwner(loc[p].code) = "none"
     THEN loc' = [loc EXCEPT ![p] =
                    [Finish(p, "InvalidReferral") EXCEPT
                       !.ident = loc[p].ident]]
     ELSE loc' = [loc EXCEPT ![p].referrer = CodeOwner(loc[p].code),
                             ![p].pc = "g_hash"]
  /\ UNCHANGED <<db, txn, today, hist>>

\* await bcrypt.hash(...)
RegisterHash(p) ==
  /\ At(p, "g_hash")
  /\ loc' = [loc EXCEPT ![p].pc = "g_code"]
  /\ UNCHANGED <<db, txn, today, hist>>

\* The referral code of the new user: a fresh random code is not in use.
RegisterReadCode(p) ==
  /\ At(p, "g_code")
  /\ loc' = [loc EXCEPT ![p].pc = "g_insert"]
  /\ UNCHANGED <<db, txn, today, hist>>

\* username and email are UNIQUE: a second INSERT of the identity throws
\* and the catch answers 400.
RegisterInsert(p) ==
  /\ At(p, "g_insert")
  /\ IF Registered(db, loc[p].ident)
     THEN /\ db' = db
          /\ loc' = [loc EXCEPT ![p] =
                       [Finish(p, "error") EXCEPT !.ident = loc[p].ident]]
     ELSE /\ db' = InsertUser(db, loc[p].ident, loc[p].referrer)
          /\ loc' = [loc EXCEPT ![p].pc = "g_fee"]
  /\ UNCHANGED <<txn, today, hist>>

RegisterInsertFee(p) ==
  /\ At(p, "g_fee")
  /\ db' = InsertActivationFee(db, loc[p].ident)
  /\ loc' = [loc EXCEPT ![p].pc =
               IF loc[p].referrer # "none" THEN "g_rb" ELSE "g_respond"]
  /\ UNCHANGED <<txn, today, hist>>

RegisterReadBonus(p) ==
  /\ At(p, "g_rb")
  /\ LET rb == getIntSetting("referral_bonus_ksh", 100) IN
       loc' = [loc EXCEPT ![p].rb = rb,
                          ![p].pc = IF rb > 0 THEN "g_credit" ELSE "g_respond"]
  /\ UNCHANGED <<db, txn, today, hist>>

RegisterCredit(p) ==
  /\ At(p, "g_credit")
  /\ db' = CreditBonus(db, loc[p].referrer, loc[p].rb)
  /\ hist' = [hist EXCEPT !.credit[loc[p].ident] = @ + loc[p].rb]
  /\ loc' = [loc EXCEPT ![p].pc = "g_respond"]
  /\ UNCHANGED <<txn, today>>

RegisterRespond(p) ==
  /\ At(p, "g_respond")
  /\ loc' = [loc EXCEPT ![p] =
       [Finish(p, "ok") EXCEPT !.ident = loc[p].ident, !.code = loc[p].code,
                               !.referrer = loc[p].referrer,
                               !.rb = loc[p].rb]]
  /\ UNCHANGED <<db, txn, today, hist>>

\* ------------------------------------------------------------------------
\* router.post("/register")  (auth.js)
\* ------------------------------------------------------------------------
AuthBonusFixed == 100

AuthRegisterStart(p, i, c) ==
  /\ Arrive(p)
  /\ loc' = [loc EXCEPT ![p] = [Idle EXCEPT !.pc = "ga_existing",
                                            !.h = "registerA",
                                            !.ident = i, !.code = c]]
  /\ UNCHANGED <<db, txn, today>>

\* SELECT id FROM users WHERE email = ? OR username = ?
AuthRegisterReadExisting(p) ==
  /\ At(p, "ga_existing")
  /\ IF Registered(db, loc[p].ident)
     THEN loc' = [loc EXCEPT ![p] =
                    [Finish(p, "EmailTaken") EXCEPT !.ident = loc[p].ident]]
     ELSE loc' = [loc EXCEPT ![p].pc =
                    IF loc[p].code # "" THEN "ga_ref" ELSE "ga_hash"]
  /\ UNCHANGED <<db, txn, today, hist>>

AuthRegisterReadReferrer(p) ==
  /\ At(p, "ga_ref")
  /\ IF CodeOwner(loc[p].code) = "none"
     THEN loc' = [loc EXCEPT ![p] =
                    [Finish(p, "InvalidReferral") EXCEPT
                       !.ident = loc[p].ident]]
     ELSE loc' = [loc EXCEPT ![p].referrer = CodeOwner(loc[p].code),
                             ![p].pc = "ga_hash"]
  /\ UNCHANGED <<db, txn, today, hist>>

AuthRegisterHash(p) ==
  /\ At(p, "ga_hash")
  /\ loc' = [loc EXCEPT ![p].pc = "ga_code"]
  /\ UNCHANGED <<db, txn, today, hist>>

\* generateReferralCode: a fresh random code is not in use.
AuthRegisterReadCode(p) ==
  /\ At(p, "ga_code")
  /\ loc' = [loc EXCEPT ![p].pc = "ga_insert"]
  /\ UNCHANGED <<db, txn, today, hist>>

AuthRegisterInsert(p) ==
  /\ At(p, "ga_insert")
  /\ IF Registered(db, loc[p].ident)
     THEN /\ db' = db
          /\ loc' = [loc EXCEPT ![p] =
                       [Finish(p, "error") EXCEPT !.ident = loc[p].ident]]
     ELSE /\ db' = InsertUser(db, loc[p].ident, loc[p].referrer)
          /\ loc' = [loc EXCEPT ![p].pc =
                       IF loc[p].referrer # "none" THEN "ga_referral"
                       ELSE "ga_respond"]
  /\ UNCHANGED <<txn, today, hist>>

\* INSERT OR IGNORE INTO referrals, then the UPDATE of the referrer's
\* bonus.  No statement creates the referrals table, so the INSERT rejects
\* and the catch answers 500 before the UPDATE is issued.
AuthRegisterReferral(p) ==
  /\ At(p, "ga_referral")
  /\ IF "referrals" \in SchemaTables
     THEN /\ db' = CreditBonus(
                     [db EXCEPT !.referrals =
                        Append(@, [referrer |-> loc[p].referrer,
                                   referred |-> loc[p].ident,
                                   amount |-> AuthBonusFixed])],
                     loc[p].referrer, AuthBonusFixed)
          /\ hist' = [hist EXCEPT !.credit[loc[p].ident] = @ + AuthBonusFixed]
          /\ loc' = [loc EXCEPT ![p].rb = AuthBonusFixed,
                                ![p].pc = "ga_respond"]
     ELSE /\ db' = db
          /\ hist' = hist
          /\ loc' = [loc EXCEPT ![p] =
                       [Finish(p, "error") EXCEPT !.ident = loc[p].ident,
                                                  !.code = loc[p].code,
                                                  !.referrer = loc[p].referrer]]
  /\ UNCHANGED <<txn, today>>

\* The read of the new user row and the response.
AuthRegisterRespond(p) ==
  /\ At(p, "ga_respond")
  /\ loc' = [loc EXCEPT ![p] =
       [Finish(p, "ok") EXCEPT !.ident = loc[p].ident, !.code = loc[p].code,
                               !.referrer = loc[p].referrer,
                               !.rb = loc[p].rb]]
  /\ UNCHANGED <<db, txn, today, hist>>

\* ------------------------------------------------------------------------
\* The environment: the clock passes midnight (dayKeyNairobi returns the
\* next day key); the catalog's owner clears the active flag of a task
\* through another connection, which the store admits while this
\* connection holds no transaction.
\* ------------------------------------------------------------------------
NextDay ==
  /\ today < MaxDay
  /\ today' = today + 1
  /\ UNCHANGED <<db, txn, loc, hist>>

DeactivateTask(t) ==
  /\ t \in db.active
  /\ ~txn.open
  /\ db' = [db EXCEPT !.active = @ \ {t}]
  /\ UNCHANGED <<txn, loc, today, hist>>

\* A finished request slot is reused by the next request.
Recycle(p) ==
  /\ At(p, "done")
  /\ loc' = [loc EXCEPT ![p] = Idle]
  /\ UNCHANGED <<db, txn, today, hist>>

RedeemNext ==
  \E p \in Procs :
    \/ \E u \in Users : RedeemStart(p, u)
    \/ RedeemReadUser(p)
    \/ RedeemReadThreshold(p)
    \/ RedeemReadTransfer(p)
    \/ RedeemUpdate(p)
    \/ RedeemRespond(p)
    \/ \E u \in Users : RefRedeemStart(p, u)
    \/ RefRedeemReadUser(p)
    \/ RefRedeemUpdate(p)
    \/ RefRedeemAudit(p)
    \/ \E u \in Users : AccRedeemStart(p, u)
    \/ AccRedeemReadUser(p)
    \/ AccRedeemUpdate(p)
    \/ AccRedeemRespond(p)
    \/ Recycle(p)

InitRedeem ==
  \E n \in InitBonuses : InitWith(0, n, 1, {}, "unpaid")

SpecRedeem == InitRedeem /\ [][RedeemNext]_vars
\* The users whose requests the task specifications follow.
TaskUsers == {"u1"}

TasksSteps(p) ==
  \/ TasksReadLimit(p)
  \/ EnsureClean(p)
  \/ EnsureReadLimit(p)
  \/ EnsureReadExisting(p)
  \/ EnsureReadTypes(p)
  \/ EnsureReadCats(p)
  \/ EnsureReadAllTypes(p)
  \/ EnsureReadCategories(p)
  \/ EnsureCategoryPick(p)
  \/ EnsureTypePick(p)
  \/ EnsureRelaxPick(p)
  \/ EnsureInsert(p)
  \/ TasksRespond(p)

TasksNext ==
  \E p \in Procs :
    \/ \E u \in TaskUsers : TasksStart(p, u)
    \/ TasksSteps(p)
    \/ Recycle(p)

\* GET /api/tasks requests of one user, one after the other.
TasksSeqNext ==
  \/ \E u \in TaskUsers : TasksStart("p1", u)
  \/ TasksSteps("p1")
  \/ Recycle("p1")

InitTasks ==
  \E l \in InitLimits, a \in InitActive : InitWith(0, 950, l, a, "unpaid")

SpecTasks == InitTasks /\ [][TasksNext]_vars

SpecTasksSeq == InitTasks /\ [][TasksSeqNext]_vars

\* Every awaited statement of a request in flight is eventually answered.
SpecTasksFair ==
  InitTasks /\ [][TasksNext]_vars /\ \A p \in Procs : WF_vars(TasksSteps(p))
CompleteSteps(p) ==
  \/ CompleteReadAssignment(p)
  \/ CompleteReadTask(p)
  \/ CompleteBegin(p)
  \/ CompleteStamp(p)
  \/ CompleteRecord(p)
  \/ CompleteCredit(p)
  \/ CompleteCommit(p)
  \/ CompleteRespond(p)

LegacyTasksSteps(p) ==
  \/ LegacyReadDay(p)
  \/ LegacyReadExisting(p)
  \/ LegacyReadHasMedia(p)
  \/ LegacyMediaPick(p)
  \/ LegacyPickMore(p)
  \/ LegacyInsert(p)
  \/ LegacyTasksRespond(p)

LegacyCompleteSteps(p) ==
  \/ LegacyCompleteReadDay(p)
  \/ LegacyCompleteCount(p)
  \/ LegacyCompleteAssigned(p)
  \/ LegacyCompleteAlready(p)
  \/ LegacyCompleteReadTask(p)
  \/ LegacyCompleteRecord(p)
  \/ LegacyCompleteCredit(p)
  \/ LegacyCompleteRespond(p)

\* Task completion through both routes, after GET /api/tasks and
\* GET /daily/tasks have assigned the day's tasks.
CompleteAnswers == {<<"o", "k">>, <<" ", "k">>}

CompleteNext ==
  \/ TasksNext
  \/ \E p \in Procs :
       \/ \E u \in TaskUsers, t \in Tasks, a \in CompleteAnswers :
            CompleteStart(p, u, t, a)
       \/ CompleteSteps(p)
       \/ \E u \in TaskUsers : LegacyTasksStart(p, u)
       \/ LegacyTasksSteps(p)
       \/ \E u \in TaskUsers, t \in Tasks, a \in CompleteAnswers :
            LegacyCompleteStart(p, u, t, a)
       \/ LegacyCompleteSteps(p)

InitComplete == InitWith(0, 950, MaxLimit, Tasks, "unpaid")

SpecComplete == InitComplete /\ [][CompleteNext]_vars
SettingsSteps(p) ==
  \/ SettingsBegin(p)
  \/ SettingsUpsert(p)
  \/ SettingsCommit(p)
  \/ SettingsRespond(p)

WithdrawSteps(p) ==
  \/ WithdrawEnsureActivation(p)
  \/ WithdrawReadActivation(p)
  \/ WithdrawRereadActivation(p)
  \/ WithdrawReadMinimum(p)
  \/ WithdrawReadBalance(p)
  \/ WithdrawBegin(p)
  \/ WithdrawDebit(p)
  \/ WithdrawInsert(p)
  \/ WithdrawCommit(p)
  \/ WithdrawRespond(p)

\* Daily allocation while an admin changes tasks_per_day.
AllocNext ==
  \/ TasksNext
  \/ \E p \in Procs :
       \/ \E upd \in SettingsInputs : SettingsStart(p, upd)
       \/ SettingsSteps(p)

SpecAlloc == InitTasks /\ [][AllocNext]_vars

\* Redemption and withdrawal requests of the users.
MoneyNext ==
  \/ RedeemNext
  \/ \E p \in Procs :
       \/ \E u \in Users, amt \in WithdrawAmounts :
            WithdrawStart(p, u, amt, 0)
       \/ WithdrawSteps(p)

InitMoney ==
  \E b \in InitBalances, n \in InitBonuses, st \in {"unpaid", "paid"} :
    InitWith(b, n, 1, {}, st)

SpecMoney == InitMoney /\ [][MoneyNext]_vars

\* Task completion with rejected statements and server crashes.
CrashNext ==
  \/ CompleteNext
  \/ \E p \in Procs : CompleteWriteFails(p) \/ CompleteRollback(p)
  \/ Crash

SpecCrash == InitComplete /\ [][CrashNext]_vars

\* One text, normalized and normalized again.
InitNormalize ==
  /\ InitStore(0, 950, 1, {}, "unpaid")
  /\ \E s \in Texts :
       loc = [p \in Procs |->
                IF p = "p1" THEN [Idle EXCEPT !.pc = "n_in", !.h = "text",
                                              !.text = s]
                ELSE Idle]

NormalizeNext == NormalizeText("p1") \/ RenormalizeText("p1")

SpecNormalize == InitNormalize /\ [][NormalizeNext]_vars

\* One text and a variant of it, both normalized.
InitVariants ==
  /\ InitStore(0, 950, 1, {}, "unpaid")
  /\ \E s \in VariantTexts :
       loc = [p \in Procs |-> [Idle EXCEPT !.pc = "n_in", !.h = "text",
                                           !.text = s]]

VariantsNext ==
  \/ VaryQuote("p2")
  \/ VarySpaceKind("p2")
  \/ VarySpaceLength("p2")
  \/ \E p \in Procs : NormalizeText(p)

SpecVariants == InitVariants /\ [][VariantsNext]_vars

\* GET /api/tasks and POST /api/tasks/:id/complete of index.js.
IndexCompleteNext ==
  \E p \in Procs :
    \/ \E u \in TaskUsers : TasksStart(p, u)
    \/ TasksSteps(p)
    \/ \E t \in Tasks, a \in CompleteAnswers : CompleteStart(p, "u1", t, a)
    \/ CompleteSteps(p)
    \/ Recycle(p)

SpecRepeat == InitComplete /\ [][IndexCompleteNext]_vars

CatalogNext == IndexCompleteNext \/ \E t \in Tasks : DeactivateTask(t)

SpecCatalog == InitComplete /\ [][CatalogNext]_vars

\* Both task routes, completions by either user, across midnight.
AssignNext ==
  \/ NextDay
  \/ \E p \in Procs :
       \/ TasksStart(p, "u1")
       \/ TasksSteps(p)
       \/ LegacyTasksStart(p, "u1")
       \/ LegacyTasksSteps(p)
       \/ \E u \in Users, a \in CompleteAnswers : CompleteStart(p, u, 1, a)
       \/ CompleteSteps(p)
       \/ \E u \in Users : LegacyCompleteStart(p, u, 1, <<"o", "k">>)
       \/ LegacyCompleteSteps(p)
       \/ Recycle(p)

InitAssign == InitWith(0, 950, 1, {1}, "unpaid")

SpecAssign == InitAssign /\ [][AssignNext]_vars

\* Completion of the assigned transcription task through both routes with
\* the reference text, a one-character text and another text.
AnswerInputs == {<<"o", "K">>, <<" ", "k">>, <<"K", "K">>}

AnswerNext ==
  \E p \in Procs :
    \/ TasksStart(p, "u1")
    \/ TasksSteps(p)
    \/ LegacyTasksStart(p, "u1")
    \/ LegacyTasksSteps(p)
    \/ \E a \in AnswerInputs : CompleteStart(p, "u1", 1, a)
    \/ CompleteSteps(p)
    \/ \E a \in AnswerInputs : LegacyCompleteStart(p, "u1", 1, a)
    \/ LegacyCompleteSteps(p)
    \/ Recycle(p)

SpecAnswer == InitAssign /\ [][AnswerNext]_vars

\* Two GET /api/tasks requests of one user on one day, the second after the
\* first was answered, both answers kept for comparison.
FetchTwiceNext ==
  \/ At("p2", "idle") /\ TasksStart("p1", "u1")
  \/ TasksSteps("p1")
  \/ At("p1", "done") /\ TasksStart("p2", "u1")
  \/ TasksSteps("p2")
  \/ At("p1", "done") /\ Recycle("p2")

SpecFetchTwice == InitTasks /\ [][FetchTwiceNext]_vars

\* POST /api/admin/settings and the two task-list routes, one request at a
\* time: every list request starts after the last settings change was
\* answered.
ConfigNext ==
  \/ ~InFlight("p2") /\ \E upd \in SettingsInputs : SettingsStart("p1", upd)
  \/ SettingsSteps("p1")
  \/ Recycle("p1")
  \/ ~InFlight("p1") /\ TasksStart("p2", "u1")
  \/ TasksSteps("p2")
  \/ ~InFlight("p1") /\ LegacyTasksStart("p2", "u1")
  \/ LegacyTasksSteps("p2")
  \/ Recycle("p2")

SpecConfig == InitTasks /\ [][ConfigNext]_vars

ActivationSteps(p) ==
  \/ ActivationLookup(p)
  \/ ActivationEnsure(p)
  \/ ActivationReadRow(p)
  \/ ActivationProvider(p)
  \/ ActivationRespond(p)

InitiateSteps(p) ==
  \/ InitiateEnsure(p)
  \/ InitiateReadActivation(p)
  \/ InitiateReadUser(p)
  \/ InitiateSubmit(p)
  \/ InitiateUpdate(p)

AdminActivationSteps(p) ==
  \/ AdminActivationEnsure(p)
  \/ AdminActivationUpdate(p)
  \/ AdminActivationRespond(p)

\* The activation requests of user u1 and the admin override.
ActivationNext ==
  \E p \in Procs :
    \/ ActivationStart(p, "u1")
    \/ \E k \in 1..MaxOrders : CallbackStart(p, "u1", k)
    \/ \E k \in 1..MaxOrders : IpnStart(p, "u1", k)
    \/ ActivationSteps(p)
    \/ InitiateStart(p, "u1")
    \/ InitiateSteps(p)
    \/ \E st \in {"paid", "unpaid"} : AdminActivationStart(p, "u1", st)
    \/ AdminActivationSteps(p)
    \/ Recycle(p)

InitActivation == InitWith(250, 950, 1, {}, "unpaid")

SpecActivation == InitActivation /\ [][ActivationNext]_vars

\* Withdrawals of user u1 while the activation fee is paid through the
\* provider or set by an admin.
GateNext ==
  \E p \in Procs :
    \/ WithdrawStart(p, "u1", 200, 0)
    \/ WithdrawSteps(p)
    \/ WithdrawProvider(p)
    \/ InitiateStart(p, "u1")
    \/ InitiateSteps(p)
    \/ \E st \in {"paid", "unpaid"} : AdminActivationStart(p, "u1", st)
    \/ AdminActivationSteps(p)
    \/ Recycle(p)

SpecGate == InitActivation /\ [][GateNext]_vars

BootstrapNext ==
  \E p \in Procs :
    \/ \E i \in AdminIdents : BootstrapStart(p, i)
    \/ BootstrapCount(p)
    \/ BootstrapHash(p)
    \/ BootstrapInsert(p)
    \/ Recycle(p)

SpecBootstrap == InitActivation /\ [][BootstrapNext]_vars

\* The money of user u1 through index.js: one task completed, the bonus
\* redeemed, withdrawals of 200 and of 200.5 shillings.
LedgerNext ==
  \E p \in Procs :
    \/ TasksStart(p, "u1")
    \/ TasksSteps(p)
    \/ CompleteStart(p, "u1", 1, <<"o", "k">>)
    \/ CompleteSteps(p)
    \/ RedeemStart(p, "u1")
    \/ RedeemReadUser(p)
    \/ RedeemReadThreshold(p)
    \/ RedeemReadTransfer(p)
    \/ RedeemUpdate(p)
    \/ RedeemRespond(p)
    \/ \E half \in {0, 1} : WithdrawStart(p, "u1", 200, half)
    \/ WithdrawEnsureActivation(p)
    \/ WithdrawReadActivation(p)
    \/ WithdrawReadMinimum(p)
    \/ WithdrawReadBalance(p)
    \/ WithdrawBegin(p)
    \/ WithdrawDebit(p)
    \/ WithdrawInsert(p)
    \/ WithdrawCommit(p)
    \/ WithdrawRespond(p)
    \/ Recycle(p)

InitLedger == InitWith(250, 1050, 1, {1}, "paid")

SpecLedger == InitLedger /\ [][LedgerNext]_vars

\* The three transactions of index.js (task completion, withdrawal, settings
\* update) and GET /api/tasks, overlapping on the one connection, with
\* rejected statements in the completion.
IsolationNext ==
  \E p \in Procs :
    \/ TasksStart(p, "u1")
    \/ TasksSteps(p)
    \/ CompleteStart(p, "u1", 1, <<"o", "k">>)
    \/ CompleteSteps(p)
    \/ CompleteWriteFails(p)
    \/ CompleteRollback(p)
    \/ WithdrawStart(p, "u1", 200, 0)
    \/ WithdrawEnsureActivation(p)
    \/ WithdrawReadActivation(p)
    \/ WithdrawReadMinimum(p)
    \/ WithdrawReadBalance(p)
    \/ WithdrawBegin(p)
    \/ WithdrawDebit(p)
    \/ WithdrawInsert(p)
    \/ WithdrawCommit(p)
    \/ WithdrawRespond(p)
    \/ \E upd \in SettingsInputs : SettingsStart(p, upd)
    \/ SettingsSteps(p)
    \/ Recycle(p)

SpecIsolation == InitLedger /\ [][IsolationNext]_vars

RegisterSteps(p) ==
  \/ RegisterReadEmail(p)
  \/ RegisterReadUsername(p)
  \/ RegisterReadReferrer(p)
  \/ RegisterHash(p)
  \/ RegisterReadCode(p)
  \/ RegisterInsert(p)
  \/ RegisterInsertFee(p)
  \/ RegisterReadBonus(p)
  \/ RegisterCredit(p)
  \/ RegisterRespond(p)

AuthRegisterSteps(p) ==
  \/ AuthRegisterReadExisting(p)
  \/ AuthRegisterReadReferrer(p)
  \/ AuthRegisterHash(p)
  \/ AuthRegisterReadCode(p)
  \/ AuthRegisterInsert(p)
  \/ AuthRegisterReferral(p)
  \/ AuthRegisterRespond(p)

\* Registrations through the index.js route only.
RegisterNext ==
  \E p \in Procs :
    \/ \E i \in Idents, c \in RegisterCodes : RegisterStart(p, i, c)
    \/ RegisterSteps(p)
    \/ Recycle(p)

\* Registrations through both routes.
RegisterAllNext ==
  \/ RegisterNext
  \/ \E p \in Procs :
       \/ \E i \in Idents, c \in RegisterCodes : AuthRegisterStart(p, i, c)
       \/ AuthRegisterSteps(p)

InitRegister == InitWith(0, 950, 1, {}, "unpaid")

SpecRegister == InitRegister /\ [][RegisterNext]_vars

SpecRegisterAll == InitRegister /\ [][RegisterAllNext]_vars

Next ==
  \/ AllocNext
  \/ CrashNext
  \/ MoneyNext
  \/ RegisterAllNext
  \/ AssignNext
  \/ CatalogNext
  \/ NormalizeNext
  \/ VariantsNext
  \/ AnswerNext
  \/ FetchTwiceNext
  \/ ConfigNext
  \/ ActivationNext
  \/ GateNext
  \/ BootstrapNext
  \/ LedgerNext
  \/ IsolationNext

Spec == Init /\ [][Next]_vars
\* ------------------------------------------------------------------------
\* Properties
\* ------------------------------------------------------------------------

Quiescent == \A p \in Procs : ~InFlight(p)

CompletionsFor(d, u, t, day) ==
  {i \in DOMAIN d.task_completions :
     /\ d.task_completions[i].user = u
     /\ d.task_completions[i].task = t
     /\ d.task_completions[i].day = day}

RewardsOf(d, u) ==
  SumSeq([i \in DOMAIN d.task_completions |->
            IF d.task_completions[i].user = u
            THEN d.task_completions[i].reward ELSE 0])

CompleteHandlers == {"complete", "lcomplete"}
RedeemHandlers == {"redeem", "redeemR", "redeemA"}

Succeeded(p, hs) == At(p, "done") /\ loc[p].h \in hs /\ loc[p].res = "ok"

\* C1: for every (user, task, day) at most one CompletionRecord exists and
\* no two CompleteTask requests for the same (user, task, day) both succeed.
C1_AtMostOneCompletion ==
  /\ \A u \in Users, t \in Tasks :
       Cardinality(CompletionsFor(db, u, t, today)) <= 1
  /\ \A p, q \in Procs :
       (/\ p # q
        /\ Succeeded(p, CompleteHandlers)
        /\ Succeeded(q, CompleteHandlers)
        /\ loc[p].user = loc[q].user
        /\ loc[p].day = loc[q].day)
       => loc[p].task # loc[q].task

\* C2: for every user and day the number of assignment rows is at most the
\* configured daily limit.
C2_BoundedAllocation ==
  \A u \in Users :
    Cardinality(RowsOf(db, u, today)) <= getIntSetting("tasks_per_day", 10)

\* C3: when GET /api/tasks requests of one user follow one another on one
\* day, no request after the first adds an assignment row.
C3_SecondCallInsertsNothing ==
  [][hist.started >= 2 => db'.daily_tasks = db.daily_tasks]_vars

\* C4: whenever no completion is between its record and its credit, every
\* user's balance is the initial balance plus the rewards of the user's
\* CompletionRecords.
C4_BalanceConservation ==
  (\A p \in Procs : loc[p].pc \notin {"c_credit", "lc_credit"})
    => \A u \in Users : db.balance[u] = hist.balance0 + RewardsOf(db, u)

C4_Witness ==
  /\ Quiescent
  /\ \E p \in Procs : Succeeded(p, CompleteHandlers)
  /\ Cardinality({i \in DOMAIN db.task_completions :
                    db.task_completions[i].user = "u1"}) >= 2
  /\ db.balance["u1"] = hist.balance0 + RewardsOf(db, "u1")

\* C5: with no request in flight (also after a crash or a rejected
\* statement) every user's credits match the user's CompletionRecords.
C5_AllOrNothing ==
  Quiescent
    => \A u \in Users : db.balance[u] = hist.balance0 + RewardsOf(db, u)

\* C6: a bonus that starts in [threshold, threshold + transfer) is
\* decremented by at most one redemption.
C6_SingleRedeem ==
  \A u \in Users :
    (/\ hist.bonus0 >= getIntSetting("referral_redeem_threshold_ksh", 1000)
     /\ hist.bonus0 < getIntSetting("referral_redeem_threshold_ksh", 1000)
                        + getIntSetting("referral_redeem_transfer_ksh", 1000))
    => hist.redeems[u] <= 1

\* C7: a Redeem that reads a bonus below the configured threshold answers
\* ThresholdNotMet, and none of its steps changes a balance or a bonus.
C7_ThresholdNotMet ==
  [][\A p \in Procs :
       LET thr == getIntSetting("referral_redeem_threshold_ksh", 1000)
           step == loc'[p] # loc[p] IN
         /\ (step /\ loc[p].pc \in {"r_user", "r_threshold"}) => db' = db
         /\ (/\ step
             /\ \/ At(p, "r_transfer") /\ loc[p].bonus < thr
                \/ /\ loc[p].pc \in {"rr_user", "ra_user"}
                   /\ db.bonus[loc[p].user] < thr)
            => /\ loc'[p].pc = "done"
               /\ loc'[p].res = "ThresholdNotMet"
               /\ db' = db]_vars

C7_Witness ==
  \E p \in Procs :
    /\ At(p, "done")
    /\ loc[p].h \in RedeemHandlers
    /\ loc[p].res = "ThresholdNotMet"
    /\ db.bonus[loc[p].user] = hist.bonus0
    /\ db.balance[loc[p].user] = hist.balance0
    /\ hist.bonus0 < getIntSetting("referral_redeem_threshold_ksh", 1000)

\* C8: every user's balance and bonus are non-negative in every state.
C8_NonNegative ==
  \A u \in Users : db.balance[u] >= 0 /\ db.bonus[u] >= 0

\* C9: the UPDATE of a Redeem moves exactly the configured transfer amount
\* from the user's bonus to the user's balance, whatever the bonus is.
C9_FixedTransfer ==
  [][\A p \in Procs :
       (/\ loc[p].pc \in {"r_update", "rr_update", "ra_update"}
        /\ loc'[p] # loc[p])
       => LET u == loc[p].user
              tr == getIntSetting("referral_redeem_transfer_ksh", 1000) IN
            /\ db'.bonus[u] = db.bonus[u] - tr
            /\ db'.balance[u] = db.balance[u] + tr
            /\ \A v \in Users \ {u} :
                 db'.bonus[v] = db.bonus[v] /\ db'.balance[v] = db.balance[v]]_vars

C9_Witness ==
  \E p \in Procs :
    /\ Succeeded(p, RedeemHandlers)
    /\ hist.bonus0 = 1050
    /\ db.bonus[loc[p].user] = 50
    /\ db.balance[loc[p].user] = hist.balance0 + 1000
    /\ loc[p].bonus = 50

\* C10: with no request in flight, the number of redemption audit rows of a
\* user equals the number of transfers applied for that user.
C10_AuditRows ==
  Quiescent
    => \A u \in Users :
         Cardinality({i \in DOMAIN db.bonus_redemptions :
                        db.bonus_redemptions[i].user = u}) = hist.redeems[u]

RegisterHandlers == {"register", "registerA"}

AccountsOf(d, i) == {k \in DOMAIN d.accounts : d.accounts[k].ident = i}

ReferredBy(d, r) ==
  {i \in Idents : \E k \in AccountsOf(d, i) : d.accounts[k].referred_by = r}

RECURSIVE SumCredit(_)
SumCredit(S) ==
  IF S = {} THEN 0
  ELSE LET i == CHOOSE x \in S : TRUE IN hist.credit[i] + SumCredit(S \ {i})

\* C11: with no request in flight, every identity has at most one user row
\* and the bonus of every referrer has grown by the referral amount once
\* for each identity registered with the referrer's code.
C11_ReferralOnce ==
  Quiescent
    => /\ \A i \in Idents : Cardinality(AccountsOf(db, i)) <= 1
       /\ \A r \in Users :
            db.bonus[r] = hist.bonus0
                          + getIntSetting("referral_bonus_ksh", 100)
                            * Cardinality(ReferredBy(db, r))

\* C12: a registration answered with success has exactly one user row; with
\* a valid code the row names the code's owner as referrer and the owner's
\* bonus was credited the configured amount for it, without a code the row
\* names no referrer, no referral row exists and nothing was credited; every
\* user's bonus is the initial bonus plus the credits of the identities the
\* user referred.
C12_ReferralCredit ==
  /\ \A p \in Procs :
       Succeeded(p, RegisterHandlers)
       => LET i == loc[p].ident IN
            /\ Cardinality(AccountsOf(db, i)) = 1
            /\ \A k \in AccountsOf(db, i) :
                 db.accounts[k].referred_by = CodeOwner(loc[p].code)
            /\ hist.credit[i] =
                 IF loc[p].code # ""
                 THEN getIntSetting("referral_bonus_ksh", 100) ELSE 0
            /\ loc[p].code = ""
               => \A k \in DOMAIN db.referrals : db.referrals[k].referred # i
  /\ \A r \in Users :
       db.bonus[r] = hist.bonus0 + SumCredit(ReferredBy(db, r))

C12_Witness ==
  /\ \E p \in Procs :
       /\ Succeeded(p, RegisterHandlers)
       /\ loc[p].code = "R1"
       /\ db.bonus["u1"] = hist.bonus0 + 100
  /\ \E q \in Procs : Succeeded(q, RegisterHandlers) /\ loc[q].code = ""

TypesOf(S) == {TaskType[t] : t \in S}

FirstTasksDone(p) ==
  /\ At(p, "done")
  /\ loc[p].h = "tasks"
  /\ hist.started = 1

\* C13: when the active catalog has fewer types than the daily limit and at
\* least as many tasks, the first GET /api/tasks of a user returns limit
\* tasks and the user has limit assignment rows.
C13_RelaxedAllocation ==
  \A p \in Procs :
    LET lim == getIntSetting("tasks_per_day", 10) IN
      (/\ FirstTasksDone(p)
       /\ Cardinality(TypesOf(db.active)) < lim
       /\ Cardinality(db.active) >= lim)
      => /\ Len(loc[p].rows) = lim
         /\ Cardinality(RowsOf(db, loc[p].user, loc[p].day)) = lim

\* C14: when the active catalog has at least limit types, the first
\* GET /api/tasks of a user returns limit tasks of pairwise distinct types,
\* none of them completed.
C14_DistinctTypes ==
  \A p \in Procs :
    LET lim == getIntSetting("tasks_per_day", 10)
        rows == loc[p].rows IN
      (FirstTasksDone(p) /\ Cardinality(TypesOf(db.active)) >= lim)
      => /\ loc[p].res = "ok"
         /\ Len(rows) = lim
         /\ \A j, k \in DOMAIN rows :
              j # k => TaskType[rows[j].task] # TaskType[rows[k].task]
         /\ Remaining(rows) = lim

C14_Witness ==
  \E p \in Procs :
    /\ FirstTasksDone(p)
    /\ db.active = {3, 4}
    /\ Len(loc[p].rows) = 2
    /\ getIntSetting("tasks_per_day", 10) = 2
    /\ TypesOf({loc[p].rows[k].task : k \in DOMAIN loc[p].rows})
         = {"image_caption", "image_tagging"}

\* C15: every GET /api/tasks in flight is eventually answered, with success;
\* with no active task the answer is the empty list and no row is stored.
C15_EnsureTerminates ==
  \A p \in Procs :
    (loc[p].h = "tasks" /\ InFlight(p))
      ~> (/\ At(p, "done")
          /\ loc[p].res = "ok"
          /\ db.active = {}
             => /\ loc[p].rows = <<>>
                /\ RowsOf(db, loc[p].user, loc[p].day) = {})

C15_Witness ==
  /\ \E p \in Procs :
       /\ At(p, "done")
       /\ loc[p].h = "tasks"
       /\ loc[p].res = "ok"
       /\ \/ db.active = {} /\ loc[p].rows = <<>>
          \/ /\ Len(loc[p].rows) = 2
             /\ Cardinality(TypesOf(db.active)) = 1

\* C16: normalizing a value that normalize returned returns the same value.
C16_NormalizeIdempotent ==
  \A p \in Procs : At(p, "n_twice") => loc[p].renorm = loc[p].norm

C16_Witness ==
  \E p \in Procs :
    /\ At(p, "n_twice")
    /\ loc[p].text = <<"LDQ", "K", "TAB", " ">>
    /\ loc[p].norm = <<"DQ", "k">>
    /\ loc[p].renorm = <<"DQ", "k">>

\* C17: a text and its variant (curly quotes typed straight, whitespace runs
\* of another kind or length) have the same normalized value.
C17_VariantsAgree ==
  (At("p1", "n_once") /\ At("p2", "n_once"))
    => loc["p1"].norm = loc["p2"].norm

HasAssignment(u, day, t) ==
  \E i \in DOMAIN db.daily_tasks :
    /\ db.daily_tasks[i].user = u
    /\ db.daily_tasks[i].day = day
    /\ db.daily_tasks[i].task = t

HasLegacyAssignment(u, day, t) ==
  \E r \in db.daily_task_assignments : r.user = u /\ r.day = day /\ r.task = t

\* C18 as stated: every completion request answered while no assignment row
\* exists for its user, its day key and its task is answered NotAssigned.
C18_UnassignedIsNotAssigned ==
  \A p \in Procs :
    (/\ At(p, "done")
     /\ loc[p].h = "complete"
     /\ ~HasAssignment(loc[p].user, loc[p].day, loc[p].task))
    => loc[p].res = "NotAssigned"

\* C18 amended: a completion request that finds no assignment row for its user, its
\* day key and its task answers NotAssigned, and neither that step nor the
\* reads before it change the store.
C18_NotAssigned ==
  [][\A p \in Procs :
       loc'[p] # loc[p]
       => /\ loc[p].pc \in {"c_dt", "lc_day", "lc_count", "lc_assigned"}
             => db' = db
          /\ (\/ /\ At(p, "c_dt")
                 /\ ~HasAssignment(loc[p].user, loc[p].day, loc[p].task)
              \/ /\ At(p, "lc_assigned")
                 /\ ~HasLegacyAssignment(loc[p].user, loc[p].day, loc[p].task))
             => /\ loc'[p].pc = "done"
                /\ loc'[p].res = "NotAssigned"]_vars

C18_Witness ==
  /\ \E p \in Procs :
       /\ At(p, "done")
       /\ loc[p].h = "complete"
       /\ loc[p].res = "NotAssigned"
       /\ loc[p].user = "u1"
       /\ loc[p].day = 2
       /\ HasAssignment("u1", 1, loc[p].task)
  /\ \E q \in Procs :
       /\ At(q, "done")
       /\ loc[q].h \in CompleteHandlers
       /\ loc[q].res = "NotAssigned"
       /\ loc[q].user = "u2"
       /\ \/ HasAssignment("u1", loc[q].day, loc[q].task)
          \/ HasLegacyAssignment("u1", loc[q].day, loc[q].task)

C20_ActiveAtCredit ==
  [][\A p \in Procs :
       (loc'[p] # loc[p] /\ loc[p].pc \in {"c_commit", "lc_credit"})
       => loc[p].task \in db.active]_vars

AnswerAccepted(a, t) ==
  /\ Len(Trim(a)) >= MinAnswerLen
  /\ TaskAnswer[t] # <<>> => normalize(a) = normalize(TaskAnswer[t])

\* C21: a completion moves on to its credit only with an answer of at least
\* two characters after trimming that, for a task with a reference answer,
\* normalizes to the normalized reference.
C21_InvalidAnswerNoCredit ==
  [][\A p \in Procs :
       (\/ loc[p].pc = "c_credit" /\ loc'[p].pc = "c_commit"
        \/ loc[p].pc = "lc_task" /\ loc'[p].pc = "lc_record")
       => AnswerAccepted(loc[p].ans, loc[p].task)]_vars

OpenRows(d, u, day) == {i \in RowsOf(d, u, day) : ~d.daily_tasks[i].completed}

\* C22, order and count: the answer of GET /api/tasks lists the user's rows
\* of the day in insertion order and its remaining count is the number of
\* those rows that are not completed.
C22_OrderAndRemaining ==
  [][\A p \in Procs :
       (loc[p].pc = "g_rows" /\ loc'[p].pc = "done")
       => /\ loc'[p].rows =
               TodayRows(db, loc[p].user, loc[p].day,
                         Cardinality(RowsOf(db, loc[p].user, loc[p].day)))
          /\ Remaining(loc'[p].rows)
               = Cardinality(OpenRows(db, loc[p].user, loc[p].day))]_vars

\* C22: two GET /api/tasks requests of one user that follow one another on
\* one day with no completion between them return the same list.
C22_StableFetch ==
  (At("p1", "done") /\ At("p2", "done")) => loc["p1"].rows = loc["p2"].rows

SameTriple(a, b) == a.user = b.user /\ a.day = b.day /\ a.task = b.task

\* C23: daily_tasks holds at most one row per (user, day key, task), and a
\* GET /api/tasks one of whose inserts found its row present is answered
\* without error.
C23_UniqueAssignment ==
  /\ \A i, j \in DOMAIN db.daily_tasks :
       SameTriple(db.daily_tasks[i], db.daily_tasks[j]) => i = j
  /\ \A p \in Procs :
       (At(p, "done") /\ loc[p].h = "tasks" /\ loc[p].ignored)
       => loc[p].res = "ok"

\* Two overlapping requests of one user picked the same task; the later
\* insert was ignored and both were answered.
C23_Witness ==
  \E p, q \in Procs :
    /\ p # q
    /\ At(p, "done") /\ loc[p].h = "tasks" /\ loc[p].ignored
    /\ At(q, "done") /\ loc[q].h = "tasks" /\ ~loc[q].ignored
    /\ loc[p].user = loc[q].user /\ loc[p].day = loc[q].day
    /\ hist.started = 2
    /\ Cardinality(RowsOf(db, loc[p].user, loc[p].day)) = 1
    /\ getIntSetting("tasks_per_day", 10) = 1

\* C24: an assignment insert of a request that started after the last change
\* of tasks_per_day leaves the user with at most the configured number of
\* rows for the day.
C24_LimitInForce ==
  [][\A u \in Users :
       LET lim == getIntSetting("tasks_per_day", 10) IN
         /\ db'.daily_tasks # db.daily_tasks
            => Cardinality(RowsOf(db', u, today)) <= lim
         /\ db'.daily_task_assignments # db.daily_task_assignments
            => Cardinality(LegacyRows(db', u, today)) <= lim]_vars

BeforeGate == {"w_ensure", "w_actrow", "w_provider", "w_actget"}

C28_PaidAbsorbing ==
  [][\A u \in Users :
       (db.activation[u].status = "paid" /\ db'.activation[u].status # "paid")
       => \E p \in Procs : loc[p].h = "adminact" /\ At(p, "aa_update")
                            /\ loc'[p] # loc[p]]_vars

\* C26: the admins table never holds more than one row created by the
\* bootstrap endpoint.
C26_SingleBootstrap == Len(db.admins) <= 1

CategoriesOf(d, u, day) ==
  {TaskCategory[d.daily_tasks[i].task] : i \in RowsOf(d, u, day)}

RECURSIVE SumAmounts(_)
SumAmounts(rows) ==
  IF rows = <<>> THEN 0 ELSE Head(rows).amount + SumAmounts(Tail(rows))

WithdrawnBy(d, u) ==
  SumAmounts(SelectSeq(d.withdrawals, LAMBDA r : r.user = u))

\* C29: whenever no request is in flight, every user's balance is the initial
\* balance plus the rewards of the user's CompletionRecords plus the amounts
\* moved by redeems minus the amounts of the user's withdrawal rows.
C29_Ledger ==
  Quiescent
  => \A u \in Users :
       Halves(db.balance[u], db.fraction[u])
         = Halves(hist.balance0 + RewardsOf(db, u)
                    + hist.redeems[u]
                        * getIntSetting("referral_redeem_transfer_ksh", 1000)
                    - WithdrawnBy(db, u), 0)

\* The positions of a request at its BEGIN statement, and between its BEGIN
\* and its COMMIT or ROLLBACK.
AtBegin == {"c_begin", "w_begin", "s_begin"}

InBlock ==
  {"c_stamp", "c_record", "c_credit", "c_commit", "c_rollback",
   "s_upsert", "s_commit", "w_debit", "w_row", "w_commit"}

\* C30: no BEGIN of a request is rejected, and while a request is between
\* its BEGIN and its COMMIT or ROLLBACK no other request writes to the store
\* on the connection, so that the block holds, commits and rolls back the
\* writes of its own request only.
C30_Isolation ==
  [][\A p \in Procs :
       /\ (loc[p].pc \in AtBegin /\ loc'[p] # loc[p])
          => loc'[p].pc \in InBlock
       /\ \A q \in Procs \ {p} :
            (loc[p].pc \in InBlock /\ loc'[q] # loc[q]) => db' = db]_vars
====
